---- MODULE Spec2Model ----
(***************************************************************************)
(* Model of the RGA async pipeline of libavfilter/rkrga_common.c:          *)
(* ff_rkrga_init, ff_rkrga_filter_frame, ff_rkrga_close, the wrapper pools *)
(* (get_free_frame / clear_unused_frames / clear_frame_list) and the async *)
(* FIFO, driven the way rgavpp_activate / rgaoverlay_activate drive them.  *)
(*                                                                         *)
(* A wrapper pool (RGAFrame *list) is a sequence; list[Len(list)] is the   *)
(* head (*list) because get_free_frame pushes new wrappers at the head, so *)
(* a walk "from the head" visits indexes Len(list), ..., 1.  A wrapper's   *)
(* index never changes, which is what an RGAFrame pointer stored in the    *)
(* FIFO needs.  Frames (AVFrame *) are numbers: 0 is NULL, n > 0 is the    *)
(* buffer made for the n-th frame handed to ff_rkrga_filter_frame.  The    *)
(* fence of that operation is the number n too; -1 is "no fence".          *)
(***************************************************************************)
EXTENDS Integers, Sequences, FiniteSets, TLC

\* ---------------------------------------------------------------- bounds
MaxDepth  == 2      \* async_depth option values explored: 0..MaxDepth
MaxFrames == 5      \* frames handed to ff_rkrga_filter_frame per context
MaxFaults == 1      \* failures injected per behaviour
MaxCloses == 2      \* ff_rkrga_close calls per context
MaxInits  == 2      \* ff_rkrga_init calls per context
MaxCfgFrames == 1   \* frames per context when the configuration is explored
MaxDescFrames == 2  \* frames per context when the frame descriptors are explored

VARIABLES
    phase,                    \* "new" | "ready" | "failed" | "closed"
    host,                     \* activate callback position: "run" | "to_eof" | "eof"
    nb_inputs,                \* avctx->nb_inputs
    async_depth,              \* r->async_depth
    is_overlay_offset_valid,  \* r->is_overlay_offset_valid
    pat_translate,            \* overlay size differs from primary or offset > 0
    eof,                      \* r->eof
    got_frame,                \* r->got_frame
    fifo_alloc,               \* r->async_fifo != NULL
    fifo_cap,                 \* capacity given to av_fifo_alloc2
    async_fifo,               \* contents of r->async_fifo: Seq of RGAAsyncFrame
    src_frame_list,           \* r->src_frame_list
    dst_frame_list,           \* r->dst_frame_list
    pat_frame_list,           \* r->pat_frame_list
    pat_preproc_frame_list,   \* r->pat_preproc_frame_list
    signalled,                \* fences in the FIFO the hardware has completed
    nframes,                  \* frames handed to ff_rkrga_filter_frame so far
    submitted,                \* history: operations enqueued, in order
    delivered,                \* history: frames handed to r->filter_frame, in order
    wait_log,                 \* history: fences imsync was called on, in order
    sync_failed,              \* history: fences whose imsync failed
    hw_reordered,             \* history: a fence completed before an older one
    faults,                   \* failures injected so far
    closes,                   \* ff_rkrga_close calls so far
    out_status_eof,           \* ff_outlink_set_status(outlink, AVERROR_EOF) done
    overlay_ended,            \* framesync: the overlay input ended, frames pass alone
    call,                     \* observation of the last call
    rga_ver,                  \* querystring(RGA_VERSION): the unit names it holds
    core_opt,                 \* the "core" option as the user gave it
    links,                    \* sw_format, w, h of inputs[0], inputs[1], outputs[0]
    param,                    \* the RKRGAParam the filter hands to ff_rkrga_init
    has_rga2,                 \* r->has_rga2
    has_rga2l,                \* r->has_rga2l
    has_rga2e,                \* r->has_rga2e
    has_rga2p,                \* r->has_rga2p
    has_rga3,                 \* r->has_rga3
    scheduler_core,           \* r->scheduler_core (the option, then the resolved core)
    is_rga2_used,             \* r->is_rga2_used
    in_rga_frame_infos,       \* r->in_rga_frame_infos: Seq of RGAFrameInfo
    out_rga_frame_info,       \* r->out_rga_frame_info
    pat_preproc_hwfc,         \* r->pat_preproc_hwframes_ctx != NULL
    inits,                    \* ff_rkrga_init calls so far
    blit_log,                 \* the c_RkRgaBlit calls of the last frame, in order
    afbc_out,                 \* r->afbc_out (the "afbc" option, then the toggle)
    desc_log,                 \* history: the frames of the last call and how each wrapper construction ended
    crop_expr,                \* eval_expr: what the cx, cy, cw, ch expressions of the vpp filter gave
    dec                       \* the RKMPPDecContext of the decoder, the MPP queue and its last call

vars == << phase, host, nb_inputs, async_depth, is_overlay_offset_valid,
           pat_translate, eof, got_frame, fifo_alloc, fifo_cap, async_fifo,
           src_frame_list, dst_frame_list, pat_frame_list,
           pat_preproc_frame_list, signalled, nframes, submitted, delivered,
           wait_log, sync_failed, hw_reordered, faults, closes, out_status_eof,
           overlay_ended, call, rga_ver, core_opt, links, param, has_rga2,
           has_rga2l, has_rga2e, has_rga2p, has_rga3, scheduler_core,
           is_rga2_used, in_rga_frame_infos, out_rga_frame_info,
           pat_preproc_hwfc, inits, blit_log, afbc_out, desc_log,
                    crop_expr, dec >>

\* the configuration side of the context and what ff_rkrga_init reads
cfgvars == << rga_ver, core_opt, links, param, has_rga2, has_rga2l, has_rga2e,
              has_rga2p, has_rga3, scheduler_core, is_rga2_used,
              in_rga_frame_infos, out_rga_frame_info, pat_preproc_hwfc,
              inits, blit_log, afbc_out, desc_log,
                    crop_expr, dec >>

\* ------------------------------------------------------------- helpers
Max(S) == CHOOSE x \in S : \A y \in S : y <= x

FFMIN(a, b) == IF a > b THEN b ELSE a

\* no frame descriptor, and the log of a call that built no wrapper
NoDesc ==
    [drm |-> FALSE, fd |-> -1, modifier |-> "LINEAR", format |-> "INVALID",
     pitch |-> 1, size |-> 0, offset1 |-> 0]

NoDescLog ==
    [sd |-> NoDesc, pd |-> NoDesc, src |-> "skip", dst |-> "skip",
     prein |-> "skip", preout |-> "skip", pat |-> "skip"]

\* a decoder that was not opened: the fields of RKMPPDecContext read below
\* (last_pkt is "none" for a size of 0, else the packet's key flag), the
\* skip_frame option being AVDISCARD_NONKEY, whether the MPP input queue
\* holds the 'EOS' packet, the data packets put after it, and the last
\* call: its name, return value and the data packets it put
NoDec ==
    [opened |-> FALSE, eof |-> FALSE, draining |-> FALSE,
     info_change |-> FALSE, buf_group |-> FALSE, errinfo_cnt |-> 0,
     got_frame |-> FALSE, last_pkt |-> "none", buf_mode |-> "HALF_INTERNAL",
     skip_nonkey |-> FALSE, mpp_eos |-> FALSE, late_puts |-> 0,
     op |-> "none", ret |-> "none", puts |-> 0]

\* no crop expression was evaluated (the filters other than the vpp one)
NoCropExpr == [cx |-> 0, cy |-> 0, cw |-> 0, ch |-> 0]

NoCall == [op |-> "none", ret |-> "OK", fault |-> "none", kind |-> "none",
           was_eof |-> FALSE, ndeliv |-> 0, peak |-> 0, src |-> 0, dst |-> 0, pat |-> 0, pre |-> 0,
           pre_blits |-> 0, blits |-> 0, order |-> << >>]

\* av_mallocz(sizeof(RGAFrame)) followed by queued = 1
NewRGAFrame == [queued |-> 1, locked |-> 0, frame |-> 0, fence |-> -1]

\* ---------------------------------------------------------- wrapper pools
\* Variant of clear_unused_frames with a plausible slip: the locked flag is
\* not looked at
clear_unused_frames_nolock(list) ==
    [i \in DOMAIN list |->
        IF list[i].queued = 1
        THEN [list[i] EXCEPT !.frame = 0, !.queued = 0]
        ELSE list[i]]

clear_unused_frames(list) ==
    [i \in DOMAIN list |->
        IF list[i].queued = 1 /\ list[i].locked = 0
        THEN [list[i] EXCEPT !.frame = 0, !.queued = 0]
        ELSE list[i]]

\* Variant of clear_frame_list with a plausible slip: nothing is unlinked
clear_frame_list_keep(list) == list

clear_frame_list(list) == << >>

\* out = 0 is the NULL return; malloc_ok is the outcome of av_mallocz
get_free_frame(list, malloc_ok) ==
    LET free == { i \in DOMAIN list : list[i].queued = 0 }
    IN  IF free # {}
        THEN [list |-> [list EXCEPT ![Max(free)].queued = 1], out |-> Max(free)]
        ELSE IF malloc_ok
             THEN [list |-> Append(list, NewRGAFrame), out |-> Len(list) + 1]
             ELSE [list |-> list, out |-> 0]

\* ------------------------------------------------------ injected failures
\* A failure is named by the step of ff_rkrga_filter_frame it happens at and
\* by its kind.  A failure whose step is not reached does not happen.
NoFault == [at |-> "none", kind |-> "none"]

Faults ==
    {NoFault}
    \cup [at : {"src", "prein", "pat"}, kind : {"malloc", "notdrm", "desc"}]
    \cup [at : {"dst", "preout"}, kind : {"malloc", "alloc"}]
    \cup [at : {"preblit"}, kind : {"blit"}]
    \cup [at : {"blit"}, kind : {"blit", "badfence"}]
    \cup [at : {"sync", "deliver"}, kind : {"fail"}]

StageFault(fault, at) == IF fault.at = at THEN fault.kind ELSE "none"

\* ------------------------------------------------- wrapper construction
\* submit_frame, as far as the pools and the frame reference go: the scan,
\* the pick, the format test (before av_frame_clone) and every later test
\* (descriptor fd, strides, FBC, dynamic limits) that returns NULL with the
\* clone already stored in the wrapper.
submit_frame(list, n, kind) ==
    LET g == get_free_frame(clear_unused_frames(list), kind # "malloc")
    IN  IF g.out = 0 THEN [list |-> g.list, out |-> 0, hit |-> TRUE]
        ELSE IF kind = "notdrm" THEN [list |-> g.list, out |-> 0, hit |-> TRUE]
        ELSE IF kind = "desc"
             THEN [list |-> [g.list EXCEPT ![g.out].frame = n],
                   out |-> 0, hit |-> TRUE]
        ELSE [list |-> [g.list EXCEPT ![g.out].frame = n, ![g.out].fence = -1],
              out |-> g.out, hit |-> FALSE]

\* query_frame: the scan, the pick, av_frame_alloc / av_hwframe_get_buffer
\* (a failure leaves the wrapper picked with no frame), then out_frame->info.
query_frame(list, n, kind) ==
    LET g == get_free_frame(clear_unused_frames(list), kind # "malloc")
    IN  IF kind = "nohwfc" THEN [list |-> list, out |-> 0, hit |-> TRUE]
        ELSE IF g.out = 0 THEN [list |-> g.list, out |-> 0, hit |-> TRUE]
        ELSE IF kind = "alloc"
             THEN [list |-> [g.list EXCEPT ![g.out].frame = 0],
                   out |-> 0, hit |-> TRUE]
        ELSE [list |-> [g.list EXCEPT ![g.out].frame = n, ![g.out].fence = -1],
              out |-> g.out, hit |-> FALSE]

\* ------------------------------------------------------------ the FIFO
\* Variant of FifoSize with a plausible slip: the extra slot is forgotten
FifoSize_nospare(depth) == depth

\* the size ff_rkrga_init gives av_fifo_alloc2: "keep fifo size at least 1"
FifoSize(depth) == depth + 1

\* av_fifo_write on a FIFO without AV_FIFO_FLAG_AUTO_GROW: refused when full
av_fifo_write(fifo, cap, a) == IF Len(fifo) < cap THEN Append(fifo, a) ELSE fifo

set_rga_async_frame_lock_status(c, a, lock) ==
    LET st == IF lock # 0 THEN 1 ELSE 0
    IN  [c EXCEPT
          !.src = IF a.src # 0 THEN [@ EXCEPT ![a.src].locked = st] ELSE @,
          !.dst = IF a.dst # 0 THEN [@ EXCEPT ![a.dst].locked = st] ELSE @,
          !.pat = IF a.pat # 0 THEN [@ EXCEPT ![a.pat].locked = st] ELSE @]

\* imsync(fence): the call is recorded.  A successful wait returns once the
\* hardware has signalled the fence, whether that happened before the call
\* or happens during it, and releases the fence; a failed wait does not.
imsync(c, fence, ok) ==
    [c EXCEPT !.wait_log = Append(@, fence),
              !.sync_failed = IF ok THEN @ ELSE @ \cup {fence},
              !.signalled = @ \ {fence}]

\* the hand-over to r->filter_frame and what follows it
deliver(c, a, ok) ==
    IF ok
    THEN [c EXCEPT !.delivered = Append(@, c.dst[a.dst].frame),
                   !.dst[a.dst].queued = @ - 1,
                   !.got_frame = 1,
                   !.dst[a.dst].frame = 0]
    ELSE [c EXCEPT !.dst[a.dst].frame = 0]

Result(c, ret, nd, peak, hit) ==
    [c |-> c, ret |-> ret, ndeliv |-> nd, peak |-> peak, hit |-> hit,
     src |-> 0, dst |-> 0, pat |-> 0, pre |-> 0, pre_blits |-> 0, blits |-> 0,
     order |-> << >>]

\* Variants of DrainEof with a plausible slip: the newest entry is taken
\* first; one entry is left behind; an "if" stands where the "while" is.
RECURSIVE DrainEof_lifo(_, _, _, _)
DrainEof_lifo(c, bad, dfail, nd) ==
    IF c.fifo = << >> THEN Result(c, "OK", nd, Len(c.fifo), FALSE)
    ELSE LET a  == c.fifo[Len(c.fifo)]
             c1 == [c EXCEPT !.fifo = SubSeq(@, 1, Len(@) - 1)]
             f  == c1.dst[a.dst].fence
             c2 == imsync(c1, f, f \notin bad)
             c3 == set_rga_async_frame_lock_status(c2, a, 0)
             ok == c3.dst[a.dst].frame # dfail
             c4 == deliver(c3, a, ok)
         IN  IF ok THEN DrainEof_lifo(c4, bad, dfail, nd + 1)
             ELSE Result(c4, "EDOWN", nd, Len(c.fifo), TRUE)

RECURSIVE DrainEof_keep(_, _, _, _)
DrainEof_keep(c, bad, dfail, nd) ==
    IF Len(c.fifo) <= 1 THEN Result(c, "OK", nd, Len(c.fifo), FALSE)
    ELSE LET a  == Head(c.fifo)
             c1 == [c EXCEPT !.fifo = Tail(@)]
             f  == c1.dst[a.dst].fence
             c2 == imsync(c1, f, f \notin bad)
             c3 == set_rga_async_frame_lock_status(c2, a, 0)
             ok == c3.dst[a.dst].frame # dfail
             c4 == deliver(c3, a, ok)
         IN  IF ok THEN DrainEof_keep(c4, bad, dfail, nd + 1)
             ELSE Result(c4, "EDOWN", nd, Len(c.fifo), TRUE)

DrainEof_once(c, bad, dfail, nd) ==
    IF c.fifo = << >> THEN Result(c, "OK", nd, Len(c.fifo), FALSE)
    ELSE LET a  == Head(c.fifo)
             c1 == [c EXCEPT !.fifo = Tail(@)]
             f  == c1.dst[a.dst].fence
             c2 == imsync(c1, f, f \notin bad)
             c3 == set_rga_async_frame_lock_status(c2, a, 0)
             ok == c3.dst[a.dst].frame # dfail
             c4 == deliver(c3, a, ok)
         IN  IF ok THEN Result(c4, "OK", nd + 1, Len(c.fifo), FALSE)
             ELSE Result(c4, "EDOWN", nd, Len(c.fifo), TRUE)

\* "Sync & Drain": the loop taken when r->eof is set.  bad is the set of
\* fences whose wait fails, dfail the frame whose delivery fails (0: none).
RECURSIVE DrainEof(_, _, _, _)
DrainEof(c, bad, dfail, nd) ==
    IF c.fifo = << >> THEN Result(c, "OK", nd, Len(c.fifo), FALSE)
    ELSE LET a  == Head(c.fifo)
             c1 == [c EXCEPT !.fifo = Tail(@)]
             f  == c1.dst[a.dst].fence
             c2 == imsync(c1, f, f \notin bad)
             c3 == set_rga_async_frame_lock_status(c2, a, 0)
             ok == c3.dst[a.dst].frame # dfail
             c4 == deliver(c3, a, ok)
         IN  IF ok THEN DrainEof(c4, bad, dfail, nd + 1)
             ELSE Result(c4, "EDOWN", nd, Len(c.fifo), TRUE)

\* Variant of SyncRetrieve with a plausible slip: ">=" for ">"
SyncRetrieve_ge(c, depth, fault, base) ==
    IF Len(c.fifo) >= depth
    THEN LET a  == Head(c.fifo)
             c1 == [c EXCEPT !.fifo = Tail(@)]
             f  == c1.dst[a.dst].fence
         IN  IF StageFault(fault, "sync") = "fail"
             THEN [base EXCEPT !.c = imsync(c1, f, FALSE),
                               !.ret = "EXTERNAL", !.hit = TRUE]
             ELSE LET c2 == set_rga_async_frame_lock_status(imsync(c1, f, TRUE), a, 0)
                      ok == StageFault(fault, "deliver") # "fail"
                      c3 == deliver(c2, a, ok)
                  IN  IF ok THEN [base EXCEPT !.c = c3, !.ndeliv = @ + 1]
                      ELSE [base EXCEPT !.c = c3, !.ret = "EDOWN", !.hit = TRUE]
    ELSE [base EXCEPT !.c = c]

\* "Sync & Retrieve": taken after the enqueue when the occupancy exceeds
\* r->async_depth
SyncRetrieve(c, depth, fault, base) ==
    IF Len(c.fifo) > depth
    THEN LET a  == Head(c.fifo)
             c1 == [c EXCEPT !.fifo = Tail(@)]
             f  == c1.dst[a.dst].fence
         IN  IF StageFault(fault, "sync") = "fail"
             THEN [base EXCEPT !.c = imsync(c1, f, FALSE),
                               !.ret = "EXTERNAL", !.hit = TRUE]
             ELSE LET c2 == set_rga_async_frame_lock_status(imsync(c1, f, TRUE), a, 0)
                      ok == StageFault(fault, "deliver") # "fail"
                      c3 == deliver(c2, a, ok)
                  IN  IF ok THEN [base EXCEPT !.c = c3, !.ndeliv = @ + 1]
                      ELSE [base EXCEPT !.c = c3, !.ret = "EDOWN", !.hit = TRUE]
    ELSE [base EXCEPT !.c = c]

\* Variant of AsyncBlit with a plausible slip: the fence is validated only
\* after the operation has been locked and enqueued
AsyncBlit_late(c, cap, depth, n, fault, s, d, p, base) ==
    LET kind == StageFault(fault, "blit")
        b    == [base EXCEPT !.src = s, !.dst = d, !.pat = p, !.blits = 1,
                             !.order = Append(@, "async")]
    IN  IF kind = "blit"
        THEN [b EXCEPT !.c = c, !.ret = "EXTERNAL", !.hit = TRUE]
        ELSE LET a  == [src |-> s, dst |-> d, pat |-> p]
                 c1 == [c EXCEPT !.dst[d].fence = n, !.dst[d].queued = @ + 1]
                 c2 == set_rga_async_frame_lock_status(c1, a, 1)
                 c3 == [c2 EXCEPT !.fifo = av_fifo_write(@, cap, a),
                                  !.submitted = Append(@, n)]
             IN  IF kind = "badfence"
                 THEN [b EXCEPT !.c = c3, !.ret = "EXTERNAL", !.hit = TRUE]
                 ELSE SyncRetrieve(c3, depth, fault, [b EXCEPT !.peak = Len(c3.fifo)])

\* call_rkrga_blit for the asynchronous blit, then the enqueue
AsyncBlit(c, cap, depth, n, fault, s, d, p, base) ==
    LET kind == StageFault(fault, "blit")
        b    == [base EXCEPT !.src = s, !.dst = d, !.pat = p, !.blits = 1,
                             !.order = Append(@, "async")]
    IN  IF kind = "blit"
        THEN [b EXCEPT !.c = c, !.ret = "EXTERNAL", !.hit = TRUE]
        ELSE IF kind = "badfence"
        THEN [b EXCEPT !.c = [c EXCEPT !.dst[d].fence = 0],
                       !.ret = "EXTERNAL", !.hit = TRUE]
        ELSE LET a  == [src |-> s, dst |-> d, pat |-> p]
                 c1 == [c EXCEPT !.dst[d].fence = n, !.dst[d].queued = @ + 1]
                 c2 == set_rga_async_frame_lock_status(c1, a, 1)
                 c3 == [c2 EXCEPT !.fifo = av_fifo_write(@, cap, a),
                                  !.submitted = Append(@, n)]
             IN  SyncRetrieve(c3, depth, fault, [b EXCEPT !.peak = Len(c3.fifo)])

\* the PAT block of ff_rkrga_filter_frame, then the asynchronous blit
PatThenBlit(c, cap, depth, n, translate, fault, s, d, base) ==
    IF translate
    THEN LET pin == submit_frame(c.pre, n, StageFault(fault, "prein"))
             c1  == [c EXCEPT !.pre = pin.list]
         IN  IF pin.out = 0
             THEN [base EXCEPT !.c = c1, !.ret = "ENOMEM", !.hit = TRUE,
                               !.src = s, !.dst = d]
             ELSE LET po == query_frame(c1.pat, n, StageFault(fault, "preout"))
                      c2 == [c1 EXCEPT !.pat = po.list]
                      b2 == [base EXCEPT !.src = s, !.dst = d, !.pre = pin.out]
                  IN  IF po.out = 0
                      THEN [b2 EXCEPT !.c = c2, !.ret = "ENOMEM", !.hit = TRUE]
                      ELSE IF StageFault(fault, "preblit") = "blit"
                      THEN [b2 EXCEPT !.c = c2, !.ret = "EXTERNAL", !.hit = TRUE,
                                      !.pat = po.out, !.pre_blits = 1,
                                      !.order = Append(@, "sync")]
                      ELSE AsyncBlit(c2, cap, depth, n, fault, s, d, po.out,
                                     [b2 EXCEPT !.pre_blits = 1,
                                                !.order = Append(@, "sync")])
    ELSE LET p  == submit_frame(c.pat, n, StageFault(fault, "pat"))
             c1 == [c EXCEPT !.pat = p.list]
         IN  IF p.out = 0
             THEN [base EXCEPT !.c = c1, !.ret = "ENOMEM", !.hit = TRUE,
                               !.src = s, !.dst = d]
             ELSE AsyncBlit(c1, cap, depth, n, fault, s, d, p.out, base)

\* ff_rkrga_filter_frame.  c: the context fields the call writes; r: the
\* fields it only reads; n: the frame handed in (0: picref_src == NULL);
\* has_pat: inlink_pat and picref_pat are given; fault, bad, dfail: the
\* outcomes of the fallible steps.
rkrga_filter_frame(c, r, n, has_pat, fault, bad, dfail) ==
    LET do_overlay == r.nb_inputs > 1 /\ r.is_overlay_offset_valid /\ has_pat
        translate  == r.pat_translate
        cap        == r.fifo_cap
        depth      == r.async_depth
        dr == IF r.eof THEN DrainEof(c, bad, dfail, 0)
              ELSE Result(c, "OK", 0, Len(c.fifo), FALSE)
    IN  IF dr.ret # "OK" THEN dr
        ELSE IF n = 0 THEN dr
        ELSE LET s  == submit_frame(dr.c.src, n, StageFault(fault, "src"))
                 c1 == [dr.c EXCEPT !.src = s.list]
             IN  IF s.out = 0
                 THEN [dr EXCEPT !.c = c1, !.ret = "ENOMEM", !.hit = TRUE]
                 ELSE LET d  == query_frame(c1.dst, n, StageFault(fault, "dst"))
                          c2 == [c1 EXCEPT !.dst = d.list]
                      IN  IF d.out = 0
                          THEN [dr EXCEPT !.c = c2, !.ret = "ENOMEM",
                                          !.hit = TRUE, !.src = s.out]
                          ELSE IF do_overlay
                          THEN PatThenBlit(c2, cap, depth, n, translate, fault,
                                           s.out, d.out, dr)
                          ELSE AsyncBlit(c2, cap, depth, n, fault,
                                         s.out, d.out, 0, dr)

\* Variant of rga_drain_fifo with a plausible slip: a failed wait ends the
\* loop and the entries behind it are dropped
RECURSIVE rga_drain_fifo_stop(_, _)
rga_drain_fifo_stop(c, bad) ==
    IF c.fifo = << >> THEN c
    ELSE LET a  == Head(c.fifo)
             c1 == [c EXCEPT !.fifo = Tail(@)]
             f  == c1.dst[a.dst].fence
         IN  IF f \in bad
             THEN [imsync(c1, f, FALSE) EXCEPT !.fifo = << >>]
             ELSE rga_drain_fifo_stop(
                      set_rga_async_frame_lock_status(imsync(c1, f, TRUE), a, 0),
                      bad)

\* rga_drain_fifo: every wait may fail (bad), no wait stops the loop
RECURSIVE rga_drain_fifo(_, _)
rga_drain_fifo(c, bad) ==
    IF c.fifo = << >> THEN c
    ELSE LET a  == Head(c.fifo)
             c1 == [c EXCEPT !.fifo = Tail(@)]
             f  == c1.dst[a.dst].fence
         IN  rga_drain_fifo(
                 set_rga_async_frame_lock_status(imsync(c1, f, f \notin bad), a, 0),
                 bad)

\* ------------------------------------------------------- the state machine
\* the fields of RKRGAContext (and the histories) a call reads and writes
Ctx == [fifo |-> async_fifo, src |-> src_frame_list, dst |-> dst_frame_list,
        pat |-> pat_frame_list, pre |-> pat_preproc_frame_list,
        delivered |-> delivered, submitted |-> submitted, wait_log |-> wait_log,
        sync_failed |-> sync_failed, signalled |-> signalled,
        got_frame |-> got_frame]

\* the fields of RKRGAContext a call only reads
Cfg == [eof |-> eof, nb_inputs |-> nb_inputs,
        is_overlay_offset_valid |-> is_overlay_offset_valid,
        pat_translate |-> pat_translate, fifo_cap |-> fifo_cap,
        async_depth |-> async_depth]

SetCtx(c) ==
    /\ async_fifo' = c.fifo
    /\ src_frame_list' = c.src
    /\ dst_frame_list' = c.dst
    /\ pat_frame_list' = c.pat
    /\ pat_preproc_frame_list' = c.pre
    /\ delivered' = c.delivered
    /\ submitted' = c.submitted
    /\ wait_log' = c.wait_log
    /\ sync_failed' = c.sync_failed
    /\ signalled' = c.signalled

\* fences of the operations in the FIFO
FifoFences == { dst_frame_list[async_fifo[i].dst].fence : i \in DOMAIN async_fifo }
\* frames of the operations in the FIFO
FifoFrames == { dst_frame_list[async_fifo[i].dst].frame : i \in DOMAIN async_fifo }

Observe(op, r, fault) ==
    [op |-> op, ret |-> r.ret, fault |-> fault.at, kind |-> fault.kind,
     was_eof |-> eof, ndeliv |-> r.ndeliv,
     peak |-> r.peak, src |-> r.src, dst |-> r.dst, pat |-> r.pat,
     pre |-> r.pre, pre_blits |-> r.pre_blits, blits |-> r.blits,
     order |-> r.order]

\* the zero-initialised private context; the options are set before init
PipelineInit ==
    /\ phase = "new"
    /\ host = "run"
    /\ nb_inputs \in {1, 2}
    /\ async_depth \in 0..MaxDepth
    /\ is_overlay_offset_valid = FALSE
    /\ pat_translate = FALSE
    /\ eof = FALSE
    /\ got_frame = 0
    /\ fifo_alloc = FALSE
    /\ fifo_cap = 0
    /\ async_fifo = << >>
    /\ src_frame_list = << >>
    /\ dst_frame_list = << >>
    /\ pat_frame_list = << >>
    /\ pat_preproc_frame_list = << >>
    /\ signalled = {}
    /\ nframes = 0
    /\ submitted = << >>
    /\ delivered = << >>
    /\ wait_log = << >>
    /\ hw_reordered = FALSE
    /\ sync_failed = {}
    /\ faults = 0
    /\ closes = 0
    /\ out_status_eof = FALSE
    /\ overlay_ended = FALSE
    /\ call = NoCall

\* Variant of rkrga_close with a plausible slip: the FIFO is freed undrained
rkrga_close_nodrain(c, bad) ==
    [c EXCEPT !.fifo = << >>,
              !.src = clear_frame_list(@),
              !.dst = clear_frame_list(@),
              !.pat = clear_frame_list(@),
              !.pre = clear_frame_list(@)]

\* ff_rkrga_close on the context c: drain, drop the four pools, free the FIFO
rkrga_close(c, bad) ==
    [rga_drain_fifo(c, bad) EXCEPT !.src = clear_frame_list(@),
                                   !.dst = clear_frame_list(@),
                                   !.pat = clear_frame_list(@),
                                   !.pre = clear_frame_list(@)]

\* ff_rkrga_init, called once from the output link's config_props.
\* outcome: "ok", "nohw" (neither RGA2 nor RGA3: return before the fail
\* label), "hwfc" (init_hwframes_ctx fails), "info" (a frame info cannot be
\* filled or verify_rga_frame_info rejects), "fifo" (av_fifo_alloc2 fails).
\* huge: a link is larger than 3840 * 2160 * 3 pixels.
Configure(outcome, huge, off_valid, translate) ==
    /\ phase = "new"
    /\ nb_inputs = 1 => (~off_valid /\ ~translate)
    /\ ~off_valid => ~translate
    /\ outcome \in {"nohw", "hwfc"} => (~huge /\ ~off_valid /\ ~translate)
    /\ phase' = IF outcome = "ok" THEN "ready" ELSE "failed"
    /\ got_frame' = 0
    /\ async_depth' = IF huge THEN FFMIN(async_depth, 1) ELSE async_depth
    /\ is_overlay_offset_valid' = off_valid
    /\ pat_translate' = translate
    /\ fifo_alloc' = (outcome = "ok")
    /\ fifo_cap' = IF outcome = "ok" THEN FifoSize(async_depth') ELSE 0
    /\ SetCtx(IF outcome = "nohw" THEN Ctx ELSE
              IF outcome = "ok" THEN Ctx ELSE rkrga_close(Ctx, {}))
    /\ call' = [NoCall EXCEPT !.op = "init",
                   !.ret = CASE outcome = "ok"   -> "OK"
                             [] outcome = "nohw" -> "ENOSYS"
                             [] outcome = "hwfc" -> "EINVAL"
                             [] outcome = "info" -> "ENOSYS"
                             [] OTHER            -> "ENOMEM"]
    /\ UNCHANGED << host, nb_inputs, eof, nframes, faults, closes,
                    out_status_eof, overlay_ended, hw_reordered >>

\* An activation that consumed a frame: ff_rkrga_filter_frame(in), then the
\* got_frame bookkeeping of the activate callback.  at_eof: the input's EOF
\* status was acknowledged in the same activation, so the callback goes on
\* to its eof label (EofDrain) unless the call failed.  has_pat: the frame
\* sync supplied an overlay frame; once the overlay input has ended the
\* primary frames come alone.
SubmitFrame(has_pat, fault, at_eof) ==
    /\ phase = "ready"
    /\ host = "run"
    /\ ~eof
    /\ nframes < MaxFrames
    /\ nb_inputs = 1 => ~has_pat
    /\ overlay_ended => ~has_pat
    /\ overlay_ended' = (nb_inputs > 1 /\ ~has_pat)
    /\ fault # NoFault => faults < MaxFaults
    /\ LET r == rkrga_filter_frame(Ctx, Cfg, nframes + 1, has_pat, fault, {}, 0)
       IN  /\ fault # NoFault => r.hit
           /\ SetCtx(r.c)
           /\ got_frame' = IF r.ret = "OK" /\ ~at_eof THEN 0 ELSE r.c.got_frame
           /\ host' = IF r.ret = "OK" /\ at_eof THEN "to_eof" ELSE "run"
           /\ faults' = IF r.hit THEN faults + 1 ELSE faults
           /\ call' = Observe("frame", r, fault)
    /\ nframes' = nframes + 1
    /\ UNCHANGED << phase, nb_inputs, async_depth, is_overlay_offset_valid,
                    pat_translate, eof, fifo_alloc, fifo_cap, closes,
                    out_status_eof, hw_reordered >>

\* The eof label of the activate callback: r->eof = 1, then
\* ff_rkrga_filter_frame(NULL) whose result is ignored, then EOF downstream.
EofDrain(bad, dfail) ==
    /\ phase = "ready"
    /\ bad \subseteq FifoFences
    /\ dfail \in FifoFrames \cup {0}
    /\ faults + Cardinality(bad) + (IF dfail = 0 THEN 0 ELSE 1) <= MaxFaults
    /\ LET r == rkrga_filter_frame(Ctx, [Cfg EXCEPT !.eof = TRUE],
                                   0, FALSE, NoFault, bad, dfail)
       IN  /\ SetCtx(r.c)
           /\ got_frame' = r.c.got_frame
           /\ call' = Observe("drain", r, IF r.ret = "OK" THEN NoFault
                                          ELSE [at |-> "deliver", kind |-> "fail"])
    /\ eof' = TRUE
    /\ host' = "eof"
    /\ out_status_eof' = TRUE
    /\ faults' = faults + Cardinality(bad) + (IF dfail = 0 THEN 0 ELSE 1)
    /\ UNCHANGED << phase, nb_inputs, async_depth, is_overlay_offset_valid,
                    pat_translate, fifo_alloc, fifo_cap, nframes, closes,
                    overlay_ended, hw_reordered >>

\* The uninit callback: ff_rkrga_close
Close(bad) ==
    /\ host # "to_eof"
    /\ closes < MaxCloses
    /\ bad \subseteq FifoFences
    /\ faults + Cardinality(bad) <= MaxFaults
    /\ SetCtx(rkrga_close(Ctx, bad))
    /\ fifo_alloc' = FALSE
    /\ phase' = "closed"
    /\ closes' = closes + 1
    /\ faults' = faults + Cardinality(bad)
    /\ call' = [NoCall EXCEPT !.op = "close"]
    /\ UNCHANGED << host, nb_inputs, async_depth, is_overlay_offset_valid,
                    pat_translate, eof, got_frame, fifo_cap, nframes,
                    out_status_eof, overlay_ended, hw_reordered >>

\* The hardware completes an operation, in any order
HwComplete(f) ==
    /\ f \in FifoFences \ signalled
    /\ signalled' = signalled \cup {f}
    /\ hw_reordered' = (hw_reordered \/ \E g \in FifoFences \ signalled : g < f)
    /\ UNCHANGED << phase, host, nb_inputs, async_depth, is_overlay_offset_valid,
                    pat_translate, eof, got_frame, fifo_alloc, fifo_cap,
                    async_fifo, src_frame_list, dst_frame_list, pat_frame_list,
                    pat_preproc_frame_list, nframes, submitted, delivered,
                    wait_log, sync_failed, faults, closes, out_status_eof,
                    overlay_ended, call >>

\* ======================================================= configuration
\* Unit names a driver version string can hold, as words; strstr() on the
\* string is a search for the needle's words inside a name's words, so
\* "RGA_2" is found in "RGA_2_lite", "RGA_2_Enhance" and "RGA_2_PRO" too.
RGA_1         == << "RGA", "1" >>
RGA_2         == << "RGA", "2" >>
RGA_2_lite    == << "RGA", "2", "lite" >>
RGA_2_Enhance == << "RGA", "2", "Enhance" >>
RGA_2_PRO     == << "RGA", "2", "PRO" >>
RGA_3         == << "RGA", "3" >>

strstr(ver, needle) ==
    \E u \in ver : \E i \in 0..(Len(u) - Len(needle)) :
        SubSeq(u, i + 1, i + Len(needle)) = needle

\* a & b on non-negative ints
RECURSIVE BitAnd(_, _)
BitAnd(a, b) ==
    IF a = 0 \/ b = 0 THEN 0
    ELSE (a % 2) * (b % 2) + 2 * BitAnd(a \div 2, b \div 2)

ALIGN_DOWN(a, b) == a - (a % b)

FFMAX(a, b) == IF a > b THEN a ELSE b

\* supported_formats_main / supported_formats_overlay: (pix_fmt, rga_fmt)
YUV_FORMATS ==
    << << "GRAY8",    "YCbCr_400" >>,        << "YUV420P",  "YCbCr_420_P" >>,
       << "YUVJ420P", "YCbCr_420_P" >>,      << "YUV422P",  "YCbCr_422_P" >>,
       << "YUVJ422P", "YCbCr_422_P" >>,      << "NV12",     "YCbCr_420_SP" >>,
       << "NV21",     "YCrCb_420_SP" >>,     << "NV16",     "YCbCr_422_SP" >>,
       << "NV24",     "YCbCr_444_SP" >>,     << "NV42",     "YCrCb_444_SP" >>,
       << "P010",     "YCbCr_420_SP_10B" >>, << "P210",     "YCbCr_422_SP_10B" >>,
       << "NV15",     "YCbCr_420_SP_10B" >>, << "NV20",     "YCbCr_422_SP_10B" >>,
       << "YUYV422",  "YUYV_422" >>,         << "YVYU422",  "YVYU_422" >>,
       << "UYVY422",  "UYVY_422" >> >>

RGB_FORMATS ==
    << << "RGB555LE", "BGRA_5551" >>, << "BGR555LE", "RGBA_5551" >>,
       << "RGB565LE", "BGR_565" >>,   << "BGR565LE", "RGB_565" >>,
       << "RGB24",    "RGB_888" >>,   << "BGR24",    "BGR_888" >>,
       << "RGBA",     "RGBA_8888" >>, << "RGB0",     "RGBA_8888" >>,
       << "BGRA",     "BGRA_8888" >>, << "BGR0",     "BGRA_8888" >>,
       << "ARGB",     "ARGB_8888" >>, << "0RGB",     "ARGB_8888" >>,
       << "ABGR",     "ABGR_8888" >>, << "0BGR",     "ABGR_8888" >> >>

\* Variant of map_av_to_rga_format with a plausible slip: the main table is
\* searched for an overlay pad too
map_av_to_rga_format_main(in_format, is_overlay) ==
    LET table == YUV_FORMATS \o RGB_FORMATS
        hits  == { i \in DOMAIN table : table[i][1] = in_format }
    IN  IF hits = {} THEN "none"
        ELSE table[CHOOSE i \in hits : \A j \in hits : i <= j][2]

\* map_av_to_rga_format: the rga_fmt of the first entry for in_format, or
\* "none" (return 0)
map_av_to_rga_format(in_format, is_overlay) ==
    LET table == IF is_overlay THEN RGB_FORMATS ELSE YUV_FORMATS \o RGB_FORMATS
        hits  == { i \in DOMAIN table : table[i][1] = in_format }
    IN  IF hits = {} THEN "none"
        ELSE table[CHOOSE i \in hits : \A j \in hits : i <= j][2]

\* what av_pix_fmt_desc_get tells about the formats of the two tables
IsRGB(f) == \E i \in DOMAIN RGB_FORMATS : RGB_FORMATS[i][1] = f

HasAlpha(f) == f \in {"RGBA", "BGRA", "ARGB", "ABGR"}

comp0_depth(f) ==
    IF f \in {"P010", "P210", "NV15", "NV20"} THEN 10
    ELSE IF f \in {"RGB555LE", "BGR555LE", "RGB565LE", "BGR565LE"} THEN 5 ELSE 8

\* a zeroed RGAFrameInfo (av_calloc, or the context as allocated)
NewRGAFrameInfo ==
    [pix_fmt |-> "NONE", rga_fmt |-> "none", act_x |-> 0, act_y |-> 0,
     act_w |-> 0, act_h |-> 0, uncompact_10b_msb |-> FALSE, rotate_mode |-> 0,
     blend_mode |-> 0, crop |-> FALSE, scheduler_core |-> 0,
     overlay_x |-> 0, overlay_y |-> 0]

\* the configuration fields of RKRGAContext, as one record for the operators
RCtx ==
    [has_rga2 |-> has_rga2, has_rga2l |-> has_rga2l, has_rga2e |-> has_rga2e,
     has_rga2p |-> has_rga2p, has_rga3 |-> has_rga3,
     scheduler_core |-> scheduler_core, is_rga2_used |-> is_rga2_used,
     nb_inputs |-> nb_inputs, async_depth |-> async_depth,
     is_overlay_offset_valid |-> is_overlay_offset_valid,
     pat_preproc_hwfc |-> pat_preproc_hwfc,
     in_rga_frame_infos |-> in_rga_frame_infos,
     out_rga_frame_info |-> out_rga_frame_info]

\* fill_rga_frame_info_by_link: [ret, info, async_depth]
fill_rga_frame_info_by_link(info, depth, link, nb_link, is_inlink) ==
    LET fmt == map_av_to_rga_format(link.sw_format, is_inlink /\ nb_link > 0)
        yuv == ~IsRGB(link.sw_format)
    IN  IF fmt = "none" THEN [ret |-> "ENOSYS", info |-> info, async_depth |-> depth]
        ELSE [ret  |-> "OK",
              info |-> [info EXCEPT
                  !.rga_fmt = fmt,
                  !.pix_fmt = link.sw_format,
                  !.act_x = 0,
                  !.act_y = 0,
                  !.act_w = IF yuv THEN ALIGN_DOWN(link.w, 2) ELSE link.w,
                  !.act_h = IF yuv THEN ALIGN_DOWN(link.h, 2) ELSE link.h,
                  !.uncompact_10b_msb = link.sw_format \in {"P010", "P210"}],
              async_depth |-> IF link.w * link.h > 3840 * 2160 * 3
                              THEN FFMIN(depth, 1) ELSE depth]

\* the formats only RGA2 reads, and the formats only RGA2 writes
Rga2OnlyIn == {"GRAY8", "YUV420P", "YUVJ420P", "YUV422P", "YUVJ422P",
               "RGB555LE", "BGR555LE"}

Rga2OnlyOut == Rga2OnlyIn \cup {"ARGB", "0RGB", "ABGR", "0BGR"}

\* (float)n / (float)d compared with num / den.  The sizes are below 2^24
\* and the constants compared with are powers of two, so the rounded
\* quotient compares as the exact one does.
RatioLT(n, d, num, den) == n * den < num * d

RatioGT(n, d, num, den) == n * den > num * d

\* Variant of verify_rga_frame_info_io_dynamic with a plausible slip: the
\* output limit of the non-Pro RGA2 is not tested
verify_rga_frame_info_io_dynamic_nomax(r, in, out) ==
    IF r.is_rga2_used /\ ~r.has_rga2 THEN "ENOSYS"
    ELSE IF r.is_rga2_used /\ (in.pix_fmt = "P010" \/ out.pix_fmt = "P010")
    THEN "ENOSYS"
    ELSE IF r.is_rga2_used /\ (in.pix_fmt = "P210" \/ out.pix_fmt = "P210")
    THEN "ENOSYS"
    ELSE IF r.is_rga2_used /\ out.pix_fmt \in {"NV15", "NV20"} THEN "ENOSYS"
    ELSE IF ~r.has_rga2p /\ r.is_rga2_used /\ in.crop
            /\ comp0_depth(in.pix_fmt) >= 10
    THEN "ENOSYS"
    ELSE IF ~r.is_rga2_used /\ (in.act_w < 68 \/ in.act_h < 2) THEN "EINVAL"
    ELSE IF ~r.is_rga2_used /\ (out.act_w > 8128 \/ out.act_h > 8128)
    THEN "EINVAL"
    ELSE "OK"

\* verify_rga_frame_info_io_dynamic: the return value
verify_rga_frame_info_io_dynamic(r, in, out) ==
    IF r.is_rga2_used /\ ~r.has_rga2 THEN "ENOSYS"
    ELSE IF r.is_rga2_used /\ (in.pix_fmt = "P010" \/ out.pix_fmt = "P010")
    THEN "ENOSYS"
    ELSE IF r.is_rga2_used /\ (in.pix_fmt = "P210" \/ out.pix_fmt = "P210")
    THEN "ENOSYS"
    ELSE IF r.is_rga2_used /\ out.pix_fmt \in {"NV15", "NV20"} THEN "ENOSYS"
    ELSE IF ~r.has_rga2p /\ r.is_rga2_used /\ in.crop
            /\ comp0_depth(in.pix_fmt) >= 10
    THEN "ENOSYS"
    ELSE IF r.is_rga2_used /\ ~r.has_rga2p
            /\ (out.act_w > 4096 \/ out.act_h > 4096)
    THEN "EINVAL"
    ELSE IF ~r.is_rga2_used /\ (in.act_w < 68 \/ in.act_h < 2) THEN "EINVAL"
    ELSE IF ~r.is_rga2_used /\ (out.act_w > 8128 \/ out.act_h > 8128)
    THEN "EINVAL"
    ELSE "OK"

\* Variant of verify_formats with a plausible slip: a YUVJ format on one
\* side only is refused in either direction
verify_formats_sym(r, src, dst) ==
    IF ~r.has_rga3 /\ (src.pix_fmt = "P010" \/ dst.pix_fmt = "P010")
    THEN "ENOSYS"
    ELSE IF ~r.has_rga3 /\ (src.pix_fmt = "P210" \/ dst.pix_fmt = "P210")
    THEN "ENOSYS"
    ELSE IF ~r.has_rga2p /\ (src.pix_fmt \in {"NV24", "NV42"}
                             \/ dst.pix_fmt \in {"NV24", "NV42"})
    THEN "ENOSYS"
    ELSE IF ~r.has_rga2 /\ src.pix_fmt \in Rga2OnlyIn THEN "ENOSYS"
    ELSE IF ~r.has_rga2 /\ dst.pix_fmt \in Rga2OnlyOut THEN "ENOSYS"
    ELSE IF (dst.pix_fmt \in {"YUVJ420P", "YUVJ422P"})
            # (src.pix_fmt \in {"YUVJ420P", "YUVJ422P"})
    THEN "ENOSYS"
    ELSE IF src.pix_fmt \in {"P010", "P210"} /\ dst.pix_fmt \in Rga2OnlyOut
    THEN "ENOSYS"
    ELSE IF dst.pix_fmt \in {"P010", "P210"} /\ src.pix_fmt \in Rga2OnlyIn
    THEN "ENOSYS"
    ELSE "OK"

\* verify_rga_frame_info, the format gates (the tests that return ENOSYS
\* before anything is written)
verify_formats(r, src, dst) ==
    IF ~r.has_rga3 /\ (src.pix_fmt = "P010" \/ dst.pix_fmt = "P010")
    THEN "ENOSYS"
    ELSE IF ~r.has_rga3 /\ (src.pix_fmt = "P210" \/ dst.pix_fmt = "P210")
    THEN "ENOSYS"
    ELSE IF ~r.has_rga2p /\ (src.pix_fmt \in {"NV24", "NV42"}
                             \/ dst.pix_fmt \in {"NV24", "NV42"})
    THEN "ENOSYS"
    ELSE IF ~r.has_rga2 /\ src.pix_fmt \in Rga2OnlyIn THEN "ENOSYS"
    ELSE IF ~r.has_rga2 /\ dst.pix_fmt \in Rga2OnlyOut THEN "ENOSYS"
    ELSE IF dst.pix_fmt \in {"YUVJ420P", "YUVJ422P"}
            /\ src.pix_fmt \notin {"YUVJ420P", "YUVJ422P"}
    THEN "ENOSYS"
    ELSE IF src.pix_fmt \in {"P010", "P210"} /\ dst.pix_fmt \in Rga2OnlyOut
    THEN "ENOSYS"
    ELSE IF dst.pix_fmt \in {"P010", "P210"} /\ src.pix_fmt \in Rga2OnlyIn
    THEN "ENOSYS"
    ELSE "OK"

\* Variant of rga2_required with a plausible slip: the formats only RGA2
\* handles do not select it
rga2_required_nofmt(r, src, dst, pat, has_pat) ==
    LET by_fmt == \/ src.pix_fmt \in Rga2OnlyIn \cup {"NV24", "NV42"}
                  \/ dst.pix_fmt \in Rga2OnlyOut \cup {"NV24", "NV42"}
        by_ratio == \/ RatioLT(dst.act_w, src.act_w, 1, 8)
                    \/ RatioGT(dst.act_w, src.act_w, 8, 1)
                    \/ RatioLT(dst.act_h, src.act_h, 1, 8)
                    \/ RatioGT(dst.act_h, src.act_h, 8, 1)
        by_size == \/ src.act_w < 68
                   \/ src.act_w > 8176
                   \/ src.act_h > 8176
                   \/ dst.act_w < 68
        by_pat == has_pat /\ (pat.act_w < 68 \/ pat.act_w > 8176
                              \/ pat.act_h > 8176)
    IN  \/ r.is_rga2_used
        \/ ~r.has_rga3
        \/ (r.has_rga3 /\ (by_ratio \/ by_size \/ by_pat))

\* Variant of rga2_required with a plausible slip: the sizes outside the
\* range of RGA3 do not select RGA2
rga2_required_nosize(r, src, dst, pat, has_pat) ==
    LET by_fmt == \/ src.pix_fmt \in Rga2OnlyIn \cup {"NV24", "NV42"}
                  \/ dst.pix_fmt \in Rga2OnlyOut \cup {"NV24", "NV42"}
        by_ratio == \/ RatioLT(dst.act_w, src.act_w, 1, 8)
                    \/ RatioGT(dst.act_w, src.act_w, 8, 1)
                    \/ RatioLT(dst.act_h, src.act_h, 1, 8)
                    \/ RatioGT(dst.act_h, src.act_h, 8, 1)
        by_size == \/ src.act_w < 68
                   \/ src.act_w > 8176
                   \/ src.act_h > 8176
                   \/ dst.act_w < 68
        by_pat == has_pat /\ (pat.act_w < 68 \/ pat.act_w > 8176
                              \/ pat.act_h > 8176)
    IN  \/ r.is_rga2_used
        \/ by_fmt
        \/ ~r.has_rga3
        \/ (r.has_rga3 /\ (by_ratio \/ by_pat))

\* Variant of rga2_required with a plausible slip: the size of the pattern
\* input is not looked at
rga2_required_nopat(r, src, dst, pat, has_pat) ==
    LET by_fmt == \/ src.pix_fmt \in Rga2OnlyIn \cup {"NV24", "NV42"}
                  \/ dst.pix_fmt \in Rga2OnlyOut \cup {"NV24", "NV42"}
        by_ratio == \/ RatioLT(dst.act_w, src.act_w, 1, 8)
                    \/ RatioGT(dst.act_w, src.act_w, 8, 1)
                    \/ RatioLT(dst.act_h, src.act_h, 1, 8)
                    \/ RatioGT(dst.act_h, src.act_h, 8, 1)
        by_size == \/ src.act_w < 68
                   \/ src.act_w > 8176
                   \/ src.act_h > 8176
                   \/ dst.act_w < 68
        by_pat == has_pat /\ (pat.act_w < 68 \/ pat.act_w > 8176
                              \/ pat.act_h > 8176)
    IN  \/ r.is_rga2_used
        \/ by_fmt
        \/ ~r.has_rga3
        \/ (r.has_rga3 /\ (by_ratio \/ by_size))

\* verify_rga_frame_info, the statements that set r->is_rga2_used before
\* the dynamic checks: the new value of the flag
rga2_required(r, src, dst, pat, has_pat) ==
    LET by_fmt == \/ src.pix_fmt \in Rga2OnlyIn \cup {"NV24", "NV42"}
                  \/ dst.pix_fmt \in Rga2OnlyOut \cup {"NV24", "NV42"}
        by_ratio == \/ RatioLT(dst.act_w, src.act_w, 1, 8)
                    \/ RatioGT(dst.act_w, src.act_w, 8, 1)
                    \/ RatioLT(dst.act_h, src.act_h, 1, 8)
                    \/ RatioGT(dst.act_h, src.act_h, 8, 1)
        by_size == \/ src.act_w < 68
                   \/ src.act_w > 8176
                   \/ src.act_h > 8176
                   \/ dst.act_w < 68
        by_pat == has_pat /\ (pat.act_w < 68 \/ pat.act_w > 8176
                              \/ pat.act_h > 8176)
    IN  \/ r.is_rga2_used
        \/ by_fmt
        \/ ~r.has_rga3
        \/ (r.has_rga3 /\ (by_ratio \/ by_size \/ by_pat))

\* Variant of scale_ratio_max with a plausible slip: the lite variant is
\* given the full range
scale_ratio_max_nolite(r) ==
    IF \/ (~r.is_rga2_used /\ r.has_rga3 /\ ~r.has_rga2)
       \/ (r.scheduler_core > 0
           /\ r.scheduler_core = BitAnd(r.scheduler_core, 3))
    THEN 8 ELSE 16

\* verify_rga_frame_info: scale_ratio_max
scale_ratio_max(r) ==
    IF \/ (r.is_rga2_used /\ r.has_rga2l)
       \/ (~r.is_rga2_used /\ r.has_rga3 /\ ~r.has_rga2)
       \/ (r.scheduler_core > 0
           /\ r.scheduler_core = BitAnd(r.scheduler_core, 3))
    THEN 8 ELSE 16

\* Variant of verify_rga_frame_info with a plausible slip: a crop does not
\* select the RGA3 cores
verify_rga_frame_info_nocrop(r, src, dst, pat, has_pat) ==
    IF verify_formats(r, src, dst) # "OK"
    THEN [ret |-> verify_formats(r, src, dst), r |-> r]
    ELSE LET r1  == [r EXCEPT !.is_rga2_used =
                                  rga2_required(r, src, dst, pat, has_pat)]
             dyn == verify_rga_frame_info_io_dynamic(r1, src, dst)
             r2  == IF r1.is_rga2_used
                    THEN [r1 EXCEPT !.scheduler_core =
                                        IF r1.has_rga2p THEN 12 ELSE 4]
                    ELSE r1
             r3  == IF /\ r2.has_rga3 /\ r2.has_rga2e /\ ~r2.is_rga2_used
                       /\ \/ r2.scheduler_core = 0
                          \/ r2.nb_inputs > 1
                          \/ dst.act_w # src.act_w
                          \/ dst.act_h # src.act_h
                          \/ src.uncompact_10b_msb
                          \/ dst.uncompact_10b_msb
                    THEN [r2 EXCEPT !.scheduler_core = 3]
                    ELSE r2
             M   == scale_ratio_max(r3)
         IN  IF dyn # "OK" THEN [ret |-> dyn, r |-> r1]
             ELSE IF \/ RatioLT(dst.act_w, src.act_w, 1, M)
                     \/ RatioGT(dst.act_w, src.act_w, M, 1)
                     \/ RatioLT(dst.act_h, src.act_h, 1, M)
                     \/ RatioGT(dst.act_h, src.act_h, M, 1)
             THEN [ret |-> "EINVAL", r |-> r3]
             ELSE [ret |-> "OK", r |-> r3]

\* Variant of verify_rga_frame_info with a plausible slip: the second RGA2
\* core of the Pro variant is not added to the legacy core mask
verify_rga_frame_info_nopro(r, src, dst, pat, has_pat) ==
    IF verify_formats(r, src, dst) # "OK"
    THEN [ret |-> verify_formats(r, src, dst), r |-> r]
    ELSE LET r1  == [r EXCEPT !.is_rga2_used =
                                  rga2_required(r, src, dst, pat, has_pat)]
             dyn == verify_rga_frame_info_io_dynamic(r1, src, dst)
             r2  == IF r1.is_rga2_used
                    THEN [r1 EXCEPT !.scheduler_core = 4]
                    ELSE r1
             r3  == IF /\ r2.has_rga3 /\ r2.has_rga2e /\ ~r2.is_rga2_used
                       /\ \/ r2.scheduler_core = 0
                          \/ r2.nb_inputs > 1
                          \/ dst.act_w # src.act_w
                          \/ dst.act_h # src.act_h
                          \/ src.crop
                          \/ src.uncompact_10b_msb
                          \/ dst.uncompact_10b_msb
                    THEN [r2 EXCEPT !.scheduler_core = 3]
                    ELSE r2
             M   == scale_ratio_max(r3)
         IN  IF dyn # "OK" THEN [ret |-> dyn, r |-> r1]
             ELSE IF \/ RatioLT(dst.act_w, src.act_w, 1, M)
                     \/ RatioGT(dst.act_w, src.act_w, M, 1)
                     \/ RatioLT(dst.act_h, src.act_h, 1, M)
                     \/ RatioGT(dst.act_h, src.act_h, M, 1)
             THEN [ret |-> "EINVAL", r |-> r3]
             ELSE [ret |-> "OK", r |-> r3]

\* verify_rga_frame_info: [ret, r]
verify_rga_frame_info(r, src, dst, pat, has_pat) ==
    IF verify_formats(r, src, dst) # "OK"
    THEN [ret |-> verify_formats(r, src, dst), r |-> r]
    ELSE LET r1  == [r EXCEPT !.is_rga2_used =
                                  rga2_required(r, src, dst, pat, has_pat)]
             dyn == verify_rga_frame_info_io_dynamic(r1, src, dst)
             r2  == IF r1.is_rga2_used
                    THEN [r1 EXCEPT !.scheduler_core =
                                        IF r1.has_rga2p THEN 12 ELSE 4]
                    ELSE r1
             r3  == IF /\ r2.has_rga3 /\ r2.has_rga2e /\ ~r2.is_rga2_used
                       /\ \/ r2.scheduler_core = 0
                          \/ r2.nb_inputs > 1
                          \/ dst.act_w # src.act_w
                          \/ dst.act_h # src.act_h
                          \/ src.crop
                          \/ src.uncompact_10b_msb
                          \/ dst.uncompact_10b_msb
                    THEN [r2 EXCEPT !.scheduler_core = 3]
                    ELSE r2
             M   == scale_ratio_max(r3)
         IN  IF dyn # "OK" THEN [ret |-> dyn, r |-> r1]
             ELSE IF \/ RatioLT(dst.act_w, src.act_w, 1, M)
                     \/ RatioGT(dst.act_w, src.act_w, M, 1)
                     \/ RatioLT(dst.act_h, src.act_h, 1, M)
                     \/ RatioGT(dst.act_h, src.act_h, M, 1)
             THEN [ret |-> "EINVAL", r |-> r3]
             ELSE [ret |-> "OK", r |-> r3]

\* Variant of detect with a plausible slip: has_rga3 is set from the test
\* for RGA_2
detect_copied(r, ver) ==
    [r EXCEPT !.has_rga2  = strstr(ver, RGA_2),
              !.has_rga2l = strstr(ver, RGA_2_lite),
              !.has_rga2e = strstr(ver, RGA_2_Enhance),
              !.has_rga2p = strstr(ver, RGA_2_PRO),
              !.has_rga3  = strstr(ver, RGA_2)]

\* ff_rkrga_init, the unit detection: the has_* flags of a version string
detect(r, ver) ==
    [r EXCEPT !.has_rga2  = strstr(ver, RGA_2),
              !.has_rga2l = strstr(ver, RGA_2_lite),
              !.has_rga2e = strstr(ver, RGA_2_Enhance),
              !.has_rga2p = strstr(ver, RGA_2_PRO),
              !.has_rga3  = strstr(ver, RGA_3)]

\* Variant of validate_core with a plausible slip: the mask test is left out
validate_core_nomask(r) ==
    LET r1 == IF r.scheduler_core # 0 /\ ~(r.has_rga2 /\ r.has_rga3)
                 /\ ~r.has_rga2p
              THEN [r EXCEPT !.scheduler_core = 0] ELSE r
        r3 == IF r1.scheduler_core # 0
                 /\ r1.scheduler_core = BitAnd(r1.scheduler_core, 3)
              THEN [r1 EXCEPT !.has_rga2 = FALSE, !.has_rga2l = FALSE,
                              !.has_rga2e = FALSE, !.has_rga2p = FALSE]
              ELSE r1
    IN  IF r3.scheduler_core = 4 /\ ~r3.has_rga2p
        THEN [r3 EXCEPT !.has_rga3 = FALSE] ELSE r3

\* ff_rkrga_init, "RGA core": the override is dropped on hardware that is
\* not multicore or when it has a bit outside rga_core_mask; a valid one
\* narrows the detected units
validate_core(r) ==
    LET rga_core_mask == IF r.has_rga2p THEN 15 ELSE 7
        r1 == IF r.scheduler_core # 0 /\ ~(r.has_rga2 /\ r.has_rga3)
                 /\ ~r.has_rga2p
              THEN [r EXCEPT !.scheduler_core = 0] ELSE r
        r2 == IF r1.scheduler_core # 0
                 /\ r1.scheduler_core # BitAnd(r1.scheduler_core, rga_core_mask)
              THEN [r1 EXCEPT !.scheduler_core = 0] ELSE r1
        r3 == IF r2.scheduler_core # 0
                 /\ r2.scheduler_core = BitAnd(r2.scheduler_core, 3)
              THEN [r2 EXCEPT !.has_rga2 = FALSE, !.has_rga2l = FALSE,
                              !.has_rga2e = FALSE, !.has_rga2p = FALSE]
              ELSE r2
    IN  IF r3.scheduler_core = 4 /\ ~r3.has_rga2p
        THEN [r3 EXCEPT !.has_rga3 = FALSE] ELSE r3

\* Variant of blend_mode with a plausible slip: the two multiplier fields
\* are swapped
blend_mode_swapped(in_global_alpha, premultiplied_alpha) ==
    IF in_global_alpha > 0 /\ in_global_alpha < 255
    THEN (IF premultiplied_alpha THEN 4 + 2^12 ELSE 4)
         + 255 * 2^16
         + (IF in_global_alpha >= 128 THEN in_global_alpha - 256
            ELSE in_global_alpha) * 2^24
    ELSE IF premultiplied_alpha THEN 1284 ELSE 1281

\* ff_rkrga_init, IM_ALPHA_BLEND_DST_OVER: the blend_mode of input 0, an
\* int (0x504 = 1284, 0x501 = 1281; the fields are disjoint, so "|" adds;
\* 0xff << 24 sets the bits 24-31, which in a 32-bit int is -2^24)
blend_mode(in_global_alpha, premultiplied_alpha) ==
    IF in_global_alpha > 0 /\ in_global_alpha < 255
    THEN (IF premultiplied_alpha THEN 4 + 2^12 ELSE 4)
         + BitAnd(in_global_alpha, 255) * 2^16
         - 2^24
    ELSE IF premultiplied_alpha THEN 1284 ELSE 1281

\* ff_rkrga_init, the input frame infos of a one-input filter: rotation
\* and crop
in_crop_info(info, pm) ==
    LET al(v) == IF IsRGB(info.pix_fmt) THEN v ELSE ALIGN_DOWN(v, 2)
        i1 == [info EXCEPT !.rotate_mode = pm.in_rotate_mode]
    IN  IF pm.in_crop
        THEN [i1 EXCEPT !.crop = TRUE,
                        !.act_x = al(pm.in_crop_x), !.act_y = al(pm.in_crop_y),
                        !.act_w = al(pm.in_crop_w), !.act_h = al(pm.in_crop_h)]
        ELSE i1

\* Variant of overlay_info with a plausible slip: an offset equal to the
\* active size minus 2 counts as valid
overlay_info_le(r, pm, hwfc_ok) ==
    LET in0   == r.in_rga_frame_infos[1]
        in1   == r.in_rga_frame_infos[2]
        valid == /\ pm.overlay_x <= in0.act_w - 2
                 /\ pm.overlay_y <= in0.act_h - 2
    IN  [r EXCEPT
          !.in_rga_frame_infos[1].blend_mode =
              blend_mode(pm.in_global_alpha, HasAlpha(in1.pix_fmt)),
          !.in_rga_frame_infos[2].overlay_x = FFMAX(pm.overlay_x, 0),
          !.in_rga_frame_infos[2].overlay_y = FFMAX(pm.overlay_y, 0),
          !.is_overlay_offset_valid = valid,
          !.pat_preproc_hwfc = IF valid /\ hwfc_ok THEN TRUE ELSE @]

\* ff_rkrga_init, the frame infos of a two-input filter: blend mode,
\* overlay offset and its validity, the pre-composite frames context
overlay_info(r, pm, hwfc_ok) ==
    LET in0   == r.in_rga_frame_infos[1]
        in1   == r.in_rga_frame_infos[2]
        valid == /\ pm.overlay_x < in0.act_w - 2
                 /\ pm.overlay_y < in0.act_h - 2
    IN  [r EXCEPT
          !.in_rga_frame_infos[1].blend_mode =
              blend_mode(pm.in_global_alpha, HasAlpha(in1.pix_fmt)),
          !.in_rga_frame_infos[2].overlay_x = FFMAX(pm.overlay_x, 0),
          !.in_rga_frame_infos[2].overlay_y = FFMAX(pm.overlay_y, 0),
          !.is_overlay_offset_valid = valid,
          !.pat_preproc_hwfc = IF valid /\ hwfc_ok THEN TRUE ELSE @]

\* ff_rkrga_init, "IN RGAFrameInfo": the zeroed array, then one
\* fill_rga_frame_info_by_link per input, stopping at the first failure
init_inputs(r, lk) ==
    LET zero == [i \in 1..r.nb_inputs |-> NewRGAFrameInfo]
        f0   == fill_rga_frame_info_by_link(zero[1], r.async_depth,
                                            lk.inputs[1], 0, TRUE)
        r0   == [r EXCEPT !.in_rga_frame_infos = [zero EXCEPT ![1] = f0.info],
                          !.async_depth = f0.async_depth]
    IN  IF f0.ret # "OK" \/ r.nb_inputs = 1 THEN [ret |-> f0.ret, r |-> r0]
        ELSE LET f1 == fill_rga_frame_info_by_link(zero[2], r0.async_depth,
                                                   lk.inputs[2], 1, TRUE)
             IN  [ret |-> f1.ret,
                  r   |-> [r0 EXCEPT !.in_rga_frame_infos[2] = f1.info,
                                     !.async_depth = f1.async_depth]]

\* ff_rkrga_init from "OUT RGAFrameInfo" on: v is what verify_rga_frame_info
\* gave for the filled infos; then the scheduler core of the output info and
\* the async FIFO
ff_rkrga_init_fifo(v, fault) ==
    IF v.ret # "OK" THEN [ret |-> v.ret, stage |-> "info", r |-> v.r]
    ELSE [ret   |-> IF fault = "fifo" THEN "ENOMEM" ELSE "OK",
          stage |-> IF fault = "fifo" THEN "fifo" ELSE "ok",
          r     |-> [v.r EXCEPT !.out_rga_frame_info.scheduler_core =
                                    v.r.scheduler_core]]

\* ff_rkrga_init, the call of verify_rga_frame_info on the context r
ff_rkrga_init_verify(r, fault) ==
    ff_rkrga_init_fifo(
        verify_rga_frame_info(r, r.in_rga_frame_infos[1],
            r.out_rga_frame_info, r.in_rga_frame_infos[r.nb_inputs],
            r.nb_inputs > 1), fault)

\* ff_rkrga_init, "OUT RGAFrameInfo": fo is what fill_rga_frame_info_by_link
\* gave for the output link
ff_rkrga_init_out(r, fo, fault) ==
    IF fo.ret # "OK"
    THEN [ret |-> fo.ret, stage |-> "info",
          r |-> [r EXCEPT !.out_rga_frame_info = fo.info,
                          !.async_depth = fo.async_depth]]
    ELSE ff_rkrga_init_verify([r EXCEPT !.out_rga_frame_info = fo.info,
                                        !.async_depth = fo.async_depth],
                              fault)

\* ff_rkrga_init, after the input infos: r has the rotation, crop, blend
\* and overlay fields set
ff_rkrga_init_param(r, lk, fault) ==
    ff_rkrga_init_out(r,
        fill_rga_frame_info_by_link(r.out_rga_frame_info, r.async_depth,
                                    lk.output, 0, FALSE), fault)

\* ff_rkrga_init, "IN RGAFrameInfo": ins is what the loop over the inputs
\* gave
ff_rkrga_init_in(ins, lk, pm, fault) ==
    IF ins.ret # "OK" THEN [ret |-> ins.ret, stage |-> "info", r |-> ins.r]
    ELSE ff_rkrga_init_param(
             IF ins.r.nb_inputs = 1
             THEN [ins.r EXCEPT
                     !.in_rga_frame_infos[1] = in_crop_info(@, pm)]
             ELSE overlay_info(ins.r, pm, fault # "pathwfc"),
             lk, fault)

\* ff_rkrga_init from init_hwframes_ctx on: r has the units detected and
\* the core option validated
ff_rkrga_init_hwfc(r, lk, pm, fault) ==
    IF fault = "hwfc" THEN [ret |-> "EINVAL", stage |-> "hwfc", r |-> r]
    ELSE ff_rkrga_init_in(init_inputs(r, lk), lk, pm, fault)

\* ff_rkrga_init after the unit detection: the early return when the
\* version string names no RGA2 and no RGA3
ff_rkrga_init_detected(r, lk, pm, fault) ==
    IF ~(r.has_rga2 \/ r.has_rga3)
    THEN [ret |-> "ENOSYS", stage |-> "nohw", r |-> r]
    ELSE ff_rkrga_init_hwfc(validate_core(r), lk, pm, fault)

\* Variant of ff_rkrga_init with a plausible slip: the test for "no unit at
\* all" is left out
ff_rkrga_init_nocheck(r, ver, lk, pm, fault) ==
    ff_rkrga_init_hwfc(validate_core(detect(r, ver)), lk, pm, fault)

\* ff_rkrga_init on the configuration fields r of the context, with the
\* version string ver, the links lk and the parameters pm: [ret, stage, r].
\* stage tells how far it got: "nohw" (the early return), "hwfc", "info",
\* "fifo" (the fail label) or "ok".  fault: the allocation that fails
\* ("hwfc": init_hwframes_ctx, "pathwfc": init_pat_preproc_hwframes_ctx,
\* whose result is not looked at, "fifo": av_fifo_alloc2).
ff_rkrga_init(r, ver, lk, pm, fault) ==
    ff_rkrga_init_detected(detect(r, ver), lk, pm, fault)

\* --------------------------------------------------- blit descriptors
\* a zeroed rga_info_t, with the tags of the AVFrame it describes
NoInfo ==
    [format |-> "none", blend |-> 0, rotation |-> 0, core |-> 0,
     priority |-> 0, sync_mode |-> "none", color_space_mode |-> 0,
     rd_mode |-> 0, rect_format |-> "none", wstride |-> 0, hstride |-> 0,
     modifier |-> "LINEAR",
     rect |-> [xoffset |-> 0, yoffset |-> 0, width |-> 0, height |-> 0],
     tags |-> [colorspace |-> "UNSPECIFIED", color_range |-> "UNSPECIFIED",
               color_trc |-> "UNSPECIFIED", color_primaries |-> "UNSPECIFIED"]]

rga_set_rect(x, y, w, h) ==
    [xoffset |-> x, yoffset |-> y, width |-> w, height |-> h]

\* Variant of set_colorspace_info with a plausible slip: the disabled mode
\* for full-range BT.709 YUV input is picked as well
set_colorspace_info_709full(in_fmt, out_fmt, in) ==
    LET rgb2yuv == IsRGB(in_fmt) /\ ~IsRGB(out_fmt)
        yuv2rgb == ~IsRGB(in_fmt) /\ IsRGB(out_fmt)
        mode ==
            IF rgb2yuv /\ in.color_range = "JPEG"
            THEN CASE in.colorspace = "BT709"   -> 11 * 2^8
                   [] in.colorspace = "BT470BG" -> 2 * 2^2
                   [] OTHER -> 0
            ELSE IF yuv2rgb /\ in.color_range = "MPEG"
            THEN CASE in.colorspace = "BT709"   -> 3
                   [] in.colorspace = "BT470BG" -> 1
                   [] OTHER -> 0
            ELSE IF yuv2rgb /\ in.color_range = "JPEG"
            THEN CASE in.colorspace = "BT470BG" -> 2
                   [] in.colorspace = "BT709"   -> 12 * 2^8
                   [] OTHER -> 0
            ELSE 0
        out1 == IF mode # 0
                THEN [in EXCEPT !.color_trc = "UNSPECIFIED",
                                !.color_primaries = "UNSPECIFIED",
                                !.color_range = IF rgb2yuv THEN "MPEG"
                                                ELSE "JPEG"]
                ELSE in
    IN  [mode |-> mode,
         out  |-> IF in_fmt \in {"YUVJ420P", "YUVJ422P"} /\ ~IsRGB(out_fmt)
                  THEN [out1 EXCEPT !.color_range = "JPEG"] ELSE out1]

\* set_colorspace_info: [mode, out], out being the tags of the output frame,
\* which came in as a copy of the input's (av_frame_copy_props)
set_colorspace_info(in_fmt, out_fmt, in) ==
    LET rgb2yuv == IsRGB(in_fmt) /\ ~IsRGB(out_fmt)
        yuv2rgb == ~IsRGB(in_fmt) /\ IsRGB(out_fmt)
        mode ==
            IF rgb2yuv /\ in.color_range = "JPEG"
            THEN CASE in.colorspace = "BT709"   -> 11 * 2^8
                   [] in.colorspace = "BT470BG" -> 2 * 2^2
                   [] OTHER -> 0
            ELSE IF yuv2rgb /\ in.color_range = "MPEG"
            THEN CASE in.colorspace = "BT709"   -> 3
                   [] in.colorspace = "BT470BG" -> 1
                   [] OTHER -> 0
            ELSE IF yuv2rgb /\ in.color_range = "JPEG"
            THEN CASE in.colorspace = "BT470BG" -> 2
                   [] OTHER -> 0
            ELSE 0
        out1 == IF mode # 0
                THEN [in EXCEPT !.color_trc = "UNSPECIFIED",
                                !.color_primaries = "UNSPECIFIED",
                                !.color_range = IF rgb2yuv THEN "MPEG"
                                                ELSE "JPEG"]
                ELSE in
    IN  [mode |-> mode,
         out  |-> IF in_fmt \in {"YUVJ420P", "YUVJ422P"} /\ ~IsRGB(out_fmt)
                  THEN [out1 EXCEPT !.color_range = "JPEG"] ELSE out1]

\* submit_frame: the rga_info_t stored in the wrapper of a frame of input
\* nb_link (a linear, non-FBC frame)
submit_info(r, nb_link, do_overlay, pat_preproc, tags) ==
    LET in_info == r.in_rga_frame_infos[nb_link + 1]
        in0     == r.in_rga_frame_infos[1]
    IN  [NoInfo EXCEPT
          !.format = in_info.rga_fmt,
          !.rect_format = in_info.rga_fmt,
          !.tags = tags,
          !.rotation = IF nb_link = 0 THEN in_info.rotate_mode ELSE 0,
          !.blend = IF nb_link = 0 /\ do_overlay /\ ~pat_preproc
                    THEN in_info.blend_mode ELSE 0,
          !.rect = IF pat_preproc
                   THEN rga_set_rect(0, 0,
                            FFMIN(in0.act_w - in_info.overlay_x, in_info.act_w),
                            FFMIN(in0.act_h - in_info.overlay_y, in_info.act_h))
                   ELSE rga_set_rect(in_info.act_x, in_info.act_y,
                                     in_info.act_w, in_info.act_h)]

\* Variant of query_info with a plausible slip: the pre-composite rectangle
\* takes the overlay's size without cutting it at the primary's edges
query_info_noclip(r, in, pat_preproc) ==
    LET in0      == r.in_rga_frame_infos[1]
        in1      == r.in_rga_frame_infos[r.nb_inputs]
        out_info == IF pat_preproc THEN in1 ELSE r.out_rga_frame_info
        csc      == set_colorspace_info(in0.pix_fmt, out_info.pix_fmt, in)
    IN  [NoInfo EXCEPT
          !.format = out_info.rga_fmt,
          !.rect_format = IF pat_preproc THEN in1.rga_fmt
                          ELSE out_info.rga_fmt,
          !.core = out_info.scheduler_core,
          !.sync_mode = "ASYNC",
          !.color_space_mode = IF pat_preproc THEN 0 ELSE csc.mode,
          !.tags = IF pat_preproc THEN in ELSE csc.out,
          !.rect = IF pat_preproc
                   THEN rga_set_rect(in1.overlay_x, in1.overlay_y,
                                     in1.act_w, in1.act_h)
                   ELSE rga_set_rect(out_info.act_x, out_info.act_y,
                                     out_info.act_w, out_info.act_h)]

\* query_frame: the rga_info_t stored in the wrapper of an output frame
\* (no AFBC), in being the tags of the frame the properties are copied from
query_info(r, in, pat_preproc) ==
    LET in0      == r.in_rga_frame_infos[1]
        in1      == r.in_rga_frame_infos[r.nb_inputs]
        out_info == IF pat_preproc THEN in1 ELSE r.out_rga_frame_info
        csc      == set_colorspace_info(in0.pix_fmt, out_info.pix_fmt, in)
    IN  [NoInfo EXCEPT
          !.format = out_info.rga_fmt,
          !.rect_format = IF pat_preproc THEN in1.rga_fmt
                          ELSE out_info.rga_fmt,
          !.core = out_info.scheduler_core,
          !.sync_mode = "ASYNC",
          !.color_space_mode = IF pat_preproc THEN 0 ELSE csc.mode,
          !.tags = IF pat_preproc THEN in ELSE csc.out,
          !.rect = IF pat_preproc
                   THEN rga_set_rect(in1.overlay_x, in1.overlay_y,
                            FFMIN(in0.act_w - in1.overlay_x, in1.act_w),
                            FFMIN(in0.act_h - in1.overlay_y, in1.act_h))
                   ELSE rga_set_rect(out_info.act_x, out_info.act_y,
                                     out_info.act_w, out_info.act_h)]

\* Variant of translate_pat with a plausible slip: the offset is not
\* looked at
translate_pat_sizeonly(r) ==
    LET in0 == r.in_rga_frame_infos[1]
        in1 == r.in_rga_frame_infos[2]
    IN  \/ in1.act_w # in0.act_w
        \/ in1.act_h # in0.act_h

\* the PAT block's test "translate PAT from top-left to (x,y)"
translate_pat(r) ==
    LET in0 == r.in_rga_frame_infos[1]
        in1 == r.in_rga_frame_infos[2]
    IN  \/ in1.act_w # in0.act_w
        \/ in1.act_h # in0.act_h
        \/ in1.overlay_x > 0
        \/ in1.overlay_y > 0

\* The operands of the c_RkRgaBlit calls of one ff_rkrga_filter_frame, in
\* the order they were made: the synchronous pre-composite blit (overlay
\* frame to canvas), the asynchronous blit (source, destination and, when
\* compositing, the overlay frame or the canvas respanned to the primary).
blit_operands(r, order, do_overlay, translate, tags, ptags) ==
    LET in0    == r.in_rga_frame_infos[1]
        core   == r.out_rga_frame_info.scheduler_core
        dst    == query_info(r, tags, FALSE)
        canvas == [query_info(r, ptags, TRUE) EXCEPT
                      !.priority = 1, !.core = core, !.sync_mode = "SYNC"]
    IN  [i \in DOMAIN order |->
          IF order[i] = "sync"
          THEN [src |-> submit_info(r, 1, FALSE, TRUE, ptags),
                dst |-> canvas, pat |-> NoInfo, has_pat |-> FALSE]
          ELSE [src |-> submit_info(r, 0, do_overlay, FALSE, tags),
                dst |-> IF do_overlay THEN [dst EXCEPT !.core = core] ELSE dst,
                pat |-> IF ~do_overlay THEN NoInfo
                        ELSE IF translate
                        THEN [canvas EXCEPT
                                !.rect = rga_set_rect(0, 0, in0.act_w, in0.act_h)]
                        ELSE submit_info(r, 1, FALSE, FALSE, ptags),
                has_pat |-> do_overlay]]

\* ------------------------------------------------- frame descriptors
\* An AVFrame handed in, as far as submit_frame reads it: drm (format ==
\* AV_PIX_FMT_DRM_PRIME), objects[0].fd, .size and .format_modifier (as
\* "LINEAR", "AFBC" or "RFBC"), layers[0].format (a DRM code), the pitch of
\* plane 0 and the offset of plane 1.
FFALIGN(x, a) == ((x + a - 1) \div a) * a

\* what av_pix_fmt_desc_get tells: AV_PIX_FMT_FLAG_PLANAR, and
\* av_get_padded_bits_per_pixel (bytes_pp is this number / 8.0f)
IsPlanar(f) ==
    f \in {"YUV420P", "YUVJ420P", "YUV422P", "YUVJ422P", "NV12", "NV21",
           "NV16", "NV24", "NV42", "P010", "P210", "NV15", "NV20"}

padded_bits_pp(f) ==
    CASE f = "GRAY8" -> 8
      [] f \in {"YUV420P", "YUVJ420P", "NV12", "NV21"} -> 12
      [] f = "NV15" -> 15
      [] f \in {"YUV422P", "YUVJ422P", "NV16", "YUYV422", "YVYU422",
                "UYVY422", "RGB555LE", "BGR555LE", "RGB565LE", "BGR565LE"} -> 16
      [] f = "NV20" -> 20
      [] f \in {"NV24", "NV42", "P010", "RGB24", "BGR24"} -> 24
      [] OTHER -> 32

\* get_pixel_stride: [ret, ws, hs]; the float quotient pitch / bytes_pp is
\* truncated by the assignment to an int
get_pixel_stride(d, f) ==
    LET is_packed_fmt == IsRGB(f) \/ (~IsRGB(f) /\ ~IsPlanar(f))
        ws == IF is_packed_fmt THEN (d.pitch * 8) \div padded_bits_pp(f)
              ELSE d.pitch
        hs == IF is_packed_fmt
              THEN ALIGN_DOWN(d.size \div d.pitch, IF IsRGB(f) THEN 1 ELSE 2)
              ELSE d.offset1 \div d.pitch
    IN  [ret |-> IF ws > 0 /\ hs > 0 THEN "OK" ELSE "EINVAL",
         ws |-> ws, hs |-> hs]

\* get_afbc_pixel_stride: [ret, stride]
get_afbc_pixel_stride(f, stride, reverse) ==
    IF stride <= 0 THEN [ret |-> "EINVAL", stride |-> stride]
    ELSE LET st == IF reverse THEN (stride * 8) \div padded_bits_pp(f)
                   ELSE (stride * padded_bits_pp(f)) \div 8
         IN  [ret |-> IF st > 0 THEN "OK" ELSE "EINVAL", stride |-> st]

get_drm_afbc_format(pix_fmt) ==
    CASE pix_fmt = "NV12"     -> "YUV420_8BIT"
      [] pix_fmt = "NV15"     -> "YUV420_10BIT"
      [] pix_fmt = "NV16"     -> "YUYV"
      [] pix_fmt = "NV20"     -> "Y210"
      [] pix_fmt = "NV24"     -> "VUY888"
      [] pix_fmt = "RGB565LE" -> "RGB565"
      [] pix_fmt = "BGR565LE" -> "BGR565"
      [] pix_fmt = "RGB24"    -> "RGB888"
      [] pix_fmt = "BGR24"    -> "BGR888"
      [] pix_fmt = "RGBA"     -> "ABGR8888"
      [] pix_fmt = "RGB0"     -> "XBGR8888"
      [] pix_fmt = "BGRA"     -> "ARGB8888"
      [] pix_fmt = "BGR0"     -> "XRGB8888"
      [] OTHER                -> "INVALID"

get_drm_rfbc_format(pix_fmt) ==
    CASE pix_fmt = "NV12" -> "YUV420_8BIT"
      [] pix_fmt = "NV15" -> "YUV420_10BIT"
      [] pix_fmt = "NV16" -> "YUYV"
      [] pix_fmt = "NV20" -> "Y210"
      [] pix_fmt = "NV24" -> "VUY888"
      [] OTHER            -> "INVALID"

is_pixel_stride_rga3_compat(ws, hs, fmt) ==
    CASE fmt \in {"YCbCr_420_SP", "YCrCb_420_SP", "YCbCr_422_SP"} ->
             ws % 16 = 0 /\ hs % 2 = 0
      [] fmt \in {"YCbCr_420_SP_10B", "YCbCr_422_SP_10B"} ->
             ws % 64 = 0 /\ hs % 2 = 0
      [] fmt \in {"YUYV_422", "YVYU_422", "UYVY_422"} ->
             ws % 8 = 0 /\ hs % 2 = 0
      [] fmt \in {"RGB_565", "BGR_565"} -> ws % 8 = 0
      [] fmt \in {"RGB_888", "BGR_888"} -> ws % 16 = 0
      [] fmt \in {"RGBA_8888", "BGRA_8888", "ARGB_8888", "ABGR_8888"} ->
             ws % 4 = 0
      [] OTHER -> FALSE

\* the result of one wrapper construction: kind is "none" when the wrapper
\* was built, else the way it failed ("notdrm": before av_frame_clone,
\* "desc": after it, "alloc": no output buffer, "nohwfc": no frames
\* context), "skip" when the call had returned before; r is the context and
\* afbc the toggle after it; info the rga_info_t stored in the wrapper
Built(kind, r, afbc, info) ==
    [kind |-> kind, r |-> r, afbc |-> afbc, info |-> info]

\* Variant of verify_stride with a plausible slip: the flag is set and the
\* output scheduler core is left as it was
verify_stride_nocore(r, in_info, rga3, compat) ==
    LET r1  == IF rga3 /\ ~compat THEN [r EXCEPT !.is_rga2_used = TRUE]
               ELSE r
        dyn == verify_rga_frame_info_io_dynamic(r1, in_info,
                                                r1.out_rga_frame_info)
    IN  IF ~rga3 THEN [ret |-> "OK", r |-> r]
        ELSE IF dyn # "OK" THEN [ret |-> dyn, r |-> r1]
        ELSE [ret |-> "OK",
              r   |-> r1]

\* Variant of verify_stride with a plausible slip: the flag is assigned the
\* outcome of the stride test, so that a later frame clears it
verify_stride_reset(r, in_info, rga3, compat) ==
    LET r1  == IF rga3 THEN [r EXCEPT !.is_rga2_used = ~compat] ELSE r
        dyn == verify_rga_frame_info_io_dynamic(r1, in_info,
                                                r1.out_rga_frame_info)
    IN  IF ~rga3 THEN [ret |-> "OK", r |-> [r EXCEPT !.is_rga2_used = FALSE]]
        ELSE IF dyn # "OK" THEN [ret |-> dyn, r |-> r1]
        ELSE [ret |-> "OK",
              r   |-> IF r1.is_rga2_used
                      THEN [r1 EXCEPT !.out_rga_frame_info.scheduler_core = 4]
                      ELSE r1]

\* Variant of verify_stride with a plausible slip: the dynamic limits are
\* checked with the flag as it was before the stride test
verify_stride_early(r, in_info, rga3, compat) ==
    LET r1  == IF rga3 /\ ~compat THEN [r EXCEPT !.is_rga2_used = TRUE]
               ELSE r
        dyn == verify_rga_frame_info_io_dynamic(r, in_info,
                                                r.out_rga_frame_info)
    IN  IF ~rga3 THEN [ret |-> "OK", r |-> r]
        ELSE IF dyn # "OK" THEN [ret |-> dyn, r |-> r1]
        ELSE [ret |-> "OK",
              r   |-> IF r1.is_rga2_used
                      THEN [r1 EXCEPT !.out_rga_frame_info.scheduler_core = 4]
                      ELSE r1]

\* submit_frame, "verify inputs pixel stride": [ret, r].  rga3 tells
\* whether the output scheduler core is non-zero with RGA3 cores only.
verify_stride(r, in_info, rga3, compat) ==
    LET r1  == IF rga3 /\ ~compat THEN [r EXCEPT !.is_rga2_used = TRUE]
               ELSE r
        dyn == verify_rga_frame_info_io_dynamic(r1, in_info,
                                                r1.out_rga_frame_info)
    IN  IF ~rga3 THEN [ret |-> "OK", r |-> r]
        ELSE IF dyn # "OK" THEN [ret |-> dyn, r |-> r1]
        ELSE [ret |-> "OK",
              r   |-> IF r1.is_rga2_used
                      THEN [r1 EXCEPT !.out_rga_frame_info.scheduler_core = 4]
                      ELSE r1]

\* Variant of submit_fbc with a plausible slip: the DRM code of the layer is
\* not compared with the code of the format
submit_fbc_anycode(r, in_info, lk, d, st, v, info, afbc) ==
    LET is_afbc == d.modifier = "AFBC"
        is_fbc  == d.modifier \in {"AFBC", "RFBC"}
        code    == IF is_afbc THEN get_drm_afbc_format(in_info.pix_fmt)
                   ELSE get_drm_rfbc_format(in_info.pix_fmt)
        rev     == get_afbc_pixel_stride(in_info.pix_fmt, d.pitch, TRUE)
        align_w == IF is_afbc THEN 16 ELSE 64
        align_h == IF is_afbc THEN 16 ELSE 4
    IN  IF v.ret # "OK" THEN Built("desc", v.r, afbc, NoInfo)
        ELSE IF ~is_fbc
        THEN Built("none", v.r, afbc,
                   [info EXCEPT !.wstride = st.ws, !.hstride = st.hs])
        ELSE IF rev.ret # "OK"
        THEN Built("desc", v.r, afbc, NoInfo)
        ELSE Built("none", v.r, afbc,
                   [info EXCEPT
                      !.wstride = IF rev.stride % align_w # 0
                                  THEN FFALIGN(lk.w, align_w) ELSE rev.stride,
                      !.hstride = FFALIGN(lk.h, align_h),
                      !.rd_mode = IF is_afbc THEN 2 ELSE 16,
                      !.modifier = d.modifier])

\* submit_frame from the FBC test on: st is what get_pixel_stride gave (0, 0
\* for a compressed frame), v what the stride verification gave
submit_fbc(r, in_info, lk, d, st, v, info, afbc) ==
    LET is_afbc == d.modifier = "AFBC"
        is_fbc  == d.modifier \in {"AFBC", "RFBC"}
        code    == IF is_afbc THEN get_drm_afbc_format(in_info.pix_fmt)
                   ELSE get_drm_rfbc_format(in_info.pix_fmt)
        rev     == get_afbc_pixel_stride(in_info.pix_fmt, d.pitch, TRUE)
        align_w == IF is_afbc THEN 16 ELSE 64
        align_h == IF is_afbc THEN 16 ELSE 4
    IN  IF v.ret # "OK" THEN Built("desc", v.r, afbc, NoInfo)
        ELSE IF ~is_fbc
        THEN Built("none", v.r, afbc,
                   [info EXCEPT !.wstride = st.ws, !.hstride = st.hs])
        ELSE IF code # d.format \/ rev.ret # "OK"
        THEN Built("desc", v.r, afbc, NoInfo)
        ELSE Built("none", v.r, afbc,
                   [info EXCEPT
                      !.wstride = IF rev.stride % align_w # 0
                                  THEN FFALIGN(lk.w, align_w) ELSE rev.stride,
                      !.hstride = FFALIGN(lk.h, align_h),
                      !.rd_mode = IF is_afbc THEN 2 ELSE 16,
                      !.modifier = d.modifier])

\* submit_frame of a frame d of input nb_link (crop_top = 0), after the
\* wrapper was picked
submit_desc(r, lk, afbc, nb_link, do_overlay, pat_preproc, d, tags) ==
    LET in_info == r.in_rga_frame_infos[nb_link + 1]
        core    == r.out_rga_frame_info.scheduler_core
        is_afbc == d.modifier = "AFBC"
        is_fbc  == d.modifier \in {"AFBC", "RFBC"}
        st      == IF is_fbc THEN [ret |-> "OK", ws |-> 0, hs |-> 0]
                   ELSE get_pixel_stride(d, in_info.pix_fmt)
    IN  IF ~d.drm THEN Built("notdrm", r, afbc, NoInfo)
        ELSE IF d.fd < 0 THEN Built("desc", r, afbc, NoInfo)
        ELSE IF st.ret # "OK" \/ (~is_fbc /\ (st.ws = 0 \/ st.hs = 0))
        THEN Built("desc", r, afbc, NoInfo)
        ELSE IF is_fbc /\ ~r.has_rga2p /\ (r.is_rga2_used \/ core = 4)
        THEN Built("desc", r, afbc, NoInfo)
        ELSE submit_fbc(r, in_info, lk.inputs[nb_link + 1], d, st,
                 verify_stride(r, in_info,
                     core > 0 /\ core = BitAnd(core, 3),
                     is_afbc \/ is_pixel_stride_rga3_compat(st.ws, st.hs,
                                                            in_info.rga_fmt)),
                 submit_info(r, nb_link, do_overlay, pat_preproc, tags),
                 afbc)

\* query_frame, "Inverted RGB/BGR order in FBCE"
fbce_format(fmt) ==
    CASE fmt = "RGBA_8888" -> "BGRA_8888"
      [] fmt = "BGRA_8888" -> "RGBA_8888"
      [] OTHER -> fmt

\* query_frame after the wrapper was picked.  got: "ok" when the output
\* buffer was had with a linear descriptor whose strides are positive,
\* else the way it failed ("nohwfc": no frames context, "alloc":
\* av_frame_alloc or av_hwframe_get_buffer).  info.modifier is the
\* format_modifier, rewritten for AFBC; the strides of a linear output
\* buffer are left out (0).
query_desc(r, lk, afbc, pat_preproc, got, tags) ==
    LET out_info == IF pat_preproc THEN r.in_rga_frame_infos[r.nb_inputs]
                    ELSE r.out_rga_frame_info
        afbc1    == IF /\ r.is_rga2_used \/ out_info.scheduler_core = 4
                       /\ afbc /\ ~pat_preproc
                    THEN FALSE ELSE afbc
        is_afbc  == afbc1 /\ ~pat_preproc
        code     == get_drm_afbc_format(out_info.pix_fmt)
        w_stride == FFALIGN(IF pat_preproc THEN lk.inputs[1].w
                            ELSE lk.output.w, 16)
        h_stride == FFALIGN(IF pat_preproc THEN lk.inputs[1].h
                            ELSE lk.output.h, 16)
        info     == query_info(r, tags, pat_preproc)
    IN  IF got # "ok" THEN Built(got, r, afbc, NoInfo)
        ELSE IF ~is_afbc THEN Built("none", r, afbc1, info)
        ELSE IF code = "INVALID" THEN Built("none", r, FALSE, info)
        ELSE IF /\ info.rect_format \in {"YCbCr_420_SP_10B",
                                         "YCbCr_422_SP_10B"}
                /\ w_stride % 64 # 0
        THEN Built("none", r, FALSE, info)
        ELSE IF get_afbc_pixel_stride(out_info.pix_fmt, w_stride,
                                      FALSE).ret # "OK"
        THEN Built("alloc", r, afbc1, NoInfo)
        ELSE Built("none", r, afbc1,
                   [info EXCEPT !.rect_format = fbce_format(@),
                                !.wstride = w_stride, !.hstride = h_stride,
                                !.rd_mode = 2, !.modifier = "AFBC"])

\* ----------------------------------------- the configuration requests
Link(f, w, h) == [sw_format |-> f, w |-> w, h |-> h]

\* RKRGAParam param = { NULL }
NoParam ==
    [in_rotate_mode |-> 0, in_global_alpha |-> 0, in_crop |-> FALSE,
     in_crop_x |-> 0, in_crop_y |-> 0, in_crop_w |-> 0, in_crop_h |-> 0,
     overlay_x |-> 0, overlay_y |-> 0]

Request(ins, out, pm, core) ==
    [lk |-> [inputs |-> ins, output |-> out], pm |-> pm, core |-> core]

\* version strings explored: no unit, RGA1 only, each RGA2 variant alone,
\* RGA3 alone, RGA3 with RGA2-Enhance (multicore) and with RGA2-Pro
RgaVersions ==
    { {}, {RGA_1}, {RGA_2}, {RGA_2_lite}, {RGA_2_Enhance}, {RGA_2_PRO},
      {RGA_3}, {RGA_3, RGA_2_Enhance}, {RGA_3, RGA_2_PRO} }

\* values of the "core" flags option explored: default, one RGA3 core, both
\* RGA3 cores, the RGA2 core, a mix, the second RGA2 core, an unknown bit
CoreOpts == {0, 1, 3, 4, 5, 8, 16}

PixFmts == {"YUV420P", "YUVJ420P", "NV12", "NV24", "P010", "P210", "NV15",
            "RGB24", "RGBA", "ARGB"}

\* one-input requests: every format pair at one size
FormatRequests ==
    { Request(<< Link(sf, 1088, 64) >>, Link(df, 1088, 64), NoParam, 0) :
        sf \in PixFmts, df \in PixFmts }

\* one-input requests: widths around the RGA3 minimum and scale ratios
\* around 8 and 16 on either axis; every core option at four ratios
SizeRequests ==
    { Request(<< Link(f, sw, 64) >>, Link(f, dw, dh), NoParam, 0) :
        f \in {"NV12", "RGBA"}, sw \in {67, 68, 1088},
        dw \in {67, 68, 544, 546, 1088, 1090}, dh \in {64, 576, 1030} }
    \cup { Request(<< Link("NV12", 68, 64) >>, Link("NV12", dw, 64),
                   NoParam, core) :
             dw \in {68, 544, 546, 1090}, core \in CoreOpts }

\* one-input requests with a crop rectangle, and a link above 3840x2160x3
CropRequests ==
    { Request(<< Link(f, 1088, 64) >>, Link("NV12", 544, 32),
              [NoParam EXCEPT !.in_crop = TRUE, !.in_crop_x = 3,
                              !.in_crop_y = 1, !.in_crop_w = cw,
                              !.in_crop_h = 33], core) :
        f \in {"NV12", "NV15", "RGBA"}, cw \in {67, 545}, core \in {0, 5} }
    \cup { Request(<< Link("NV12", 8192, 4096) >>, Link("NV12", 4096, 4096),
                   NoParam, 0) }

\* two-input requests (the output has the size of the main input): overlay
\* formats with and without alpha and one the overlay table lacks, overlay
\* sizes equal to and different from the main one, offsets negative, zero,
\* inside and outside the main picture, the global alpha range, and one
\* with a core option naming cores of both generations
OverlayRequest(mf, of, os, xy, a) ==
    Request(<< Link(mf, 1088, 64), Link(of, os[1], os[2]) >>,
            Link(mf, 1088, 64),
            [NoParam EXCEPT !.in_global_alpha = a, !.overlay_x = xy[1],
                            !.overlay_y = xy[2]], 0)

OverlayRequests ==
    { OverlayRequest(mf, of, os, xy, 128) :
        mf \in {"NV12", "RGBA"}, of \in {"RGBA", "RGB24", "NV12"},
        os \in { << 1088, 64 >>, << 200, 32 >>, << 66, 64 >> },
        xy \in { << 0, 0 >>, << 50, 10 >>, << -4, 0 >>, << 0, 62 >>,
                 << 1086, 0 >>, << 1085, 61 >> } }
    \cup { OverlayRequest("NV12", of, os, xy, a) :
             of \in {"RGBA", "RGB24"},
             os \in { << 1088, 64 >>, << 200, 32 >> },
             xy \in { << 0, 0 >>, << 50, 10 >> },
             a \in {0, 1, 127, 254, 255} }
    \cup { [OverlayRequest("NV12", "RGBA", << 1088, 64 >>, << 0, 0 >>, 128)
               EXCEPT !.core = 5] }

\* one-input requests between the full-range JPEG planar formats, their
\* limited-range counterparts and NV12
JpegRequests ==
    { Request(<< Link(sf, 1088, 64) >>, Link(df, 1088, 64), NoParam, 0) :
        sf \in {"YUVJ420P", "YUVJ422P", "YUV420P", "YUV422P", "NV12"},
        df \in {"YUVJ420P", "YUVJ422P", "YUV420P", "YUV422P", "NV12"} }

\* one-input requests with a 10-bit msb-aligned format on either side, at
\* one size, with every core option
TenBitRequests ==
    { Request(<< Link(p[1], 1088, 64) >>, Link(p[2], 1088, 64), NoParam,
              core) :
        p \in { << "P010", "NV12" >>, << "NV12", "P010" >>,
                << "P210", "P210" >> },
        core \in CoreOpts }

Requests ==
    UNION {FormatRequests, SizeRequests, CropRequests, OverlayRequests,
           JpegRequests, TenBitRequests}

\* tags of the frames handed in: the colorimetry and range combinations
DefaultTags ==
    [colorspace |-> "BT709", color_range |-> "MPEG", color_trc |-> "BT709",
     color_primaries |-> "BT709"]

FrameTags ==
    { [DefaultTags EXCEPT !.colorspace = cs, !.color_range = cr] :
        cs \in {"BT709", "BT470BG", "UNSPECIFIED"},
        cr \in {"MPEG", "JPEG", "UNSPECIFIED"} }

\* ------------------------------------------- configuring the context
\* ff_rkrga_init as config_props calls it, on a new context or on one that
\* was closed: the configuration fields, and on the fail label
\* ff_rkrga_close
RkrgaInitWith(pm, fault) ==
    /\ phase \in {"new", "closed"}
    /\ inits < MaxInits
    /\ \E res \in {ff_rkrga_init(RCtx, rga_ver, links, pm, fault)} :
       LET ok  == res.stage = "ok"
           c   == IF res.stage \in {"ok", "nohw"} THEN Ctx
                  ELSE rkrga_close(Ctx, {})
       IN  /\ fault \in {"hwfc", "fifo"} => res.stage = fault
           /\ fault = "pathwfc" => (ok /\ res.r.is_overlay_offset_valid)
           /\ SetCtx(c)
           /\ phase' = IF ok THEN "ready" ELSE "failed"
           /\ got_frame' = 0
           /\ async_depth' = res.r.async_depth
           /\ is_overlay_offset_valid' = res.r.is_overlay_offset_valid
           /\ pat_translate' = (ok /\ nb_inputs > 1 /\ translate_pat(res.r))
           /\ fifo_alloc' = ok
           /\ fifo_cap' = IF ok THEN FifoSize(res.r.async_depth) ELSE 0
           /\ has_rga2' = res.r.has_rga2
           /\ has_rga2l' = res.r.has_rga2l
           /\ has_rga2e' = res.r.has_rga2e
           /\ has_rga2p' = res.r.has_rga2p
           /\ has_rga3' = res.r.has_rga3
           /\ scheduler_core' = res.r.scheduler_core
           /\ is_rga2_used' = res.r.is_rga2_used
           /\ in_rga_frame_infos' = res.r.in_rga_frame_infos
           /\ out_rga_frame_info' = res.r.out_rga_frame_info
           /\ pat_preproc_hwfc' = (res.stage \in {"ok", "nohw"}
                                   /\ res.r.pat_preproc_hwfc)
           /\ call' = [NoCall EXCEPT !.op = "init", !.ret = res.ret,
                                     !.kind = res.stage]
    /\ inits' = inits + 1
    /\ blit_log' = << >>
    /\ param' = pm
    /\ UNCHANGED << host, nb_inputs, eof, nframes, faults, closes,
                    out_status_eof, overlay_ended, hw_reordered,
                    rga_ver, core_opt, links, afbc_out, desc_log,
                    crop_expr, dec >>

RkrgaInit(fault) == RkrgaInitWith(param, fault)

\* An activation that consumed a frame with the tags given (SubmitFrame),
\* and the operands its blits were called with.  A pre-composite canvas
\* cannot be had when the frames context for it was not created.
FilterFrame(has_pat, tags) ==
    /\ nframes < MaxCfgFrames
    /\ LET do_overlay == nb_inputs > 1 /\ is_overlay_offset_valid /\ has_pat
           fault == IF do_overlay /\ pat_translate /\ ~pat_preproc_hwfc
                    THEN [at |-> "preout", kind |-> "nohwfc"] ELSE NoFault
       IN  /\ SubmitFrame(has_pat, fault, FALSE)
           /\ blit_log' = blit_operands(RCtx, call'.order, do_overlay,
                                        pat_translate, tags, DefaultTags)
    /\ UNCHANGED << rga_ver, core_opt, links, param, has_rga2, has_rga2l,
                    has_rga2e, has_rga2p, has_rga3, scheduler_core,
                    is_rga2_used, in_rga_frame_infos, out_rga_frame_info,
                    pat_preproc_hwfc, inits, afbc_out, desc_log,
                    crop_expr, dec >>

\* The uninit callback (Close), which drops the pre-composite frames
\* context as well
Uninit ==
    /\ Close({})
    /\ pat_preproc_hwfc' = FALSE
    /\ blit_log' = << >>
    /\ UNCHANGED << rga_ver, core_opt, links, param, has_rga2, has_rga2l,
                    has_rga2e, has_rga2p, has_rga3, scheduler_core,
                    is_rga2_used, in_rga_frame_infos, out_rga_frame_info,
                    inits, afbc_out, desc_log,
                    crop_expr, dec >>

\* a context in which nothing was configured yet
IdleCfg ==
    /\ has_rga2 = FALSE
    /\ has_rga2l = FALSE
    /\ has_rga2e = FALSE
    /\ has_rga2p = FALSE
    /\ has_rga3 = FALSE
    /\ is_rga2_used = FALSE
    /\ in_rga_frame_infos = << >>
    /\ out_rga_frame_info = NewRGAFrameInfo
    /\ pat_preproc_hwfc = FALSE
    /\ inits = 0
    /\ blit_log = << >>

\* the pipeline on its own: the configuration is the abstract Configure and
\* the configuration fields stay as allocated
Init ==
    /\ PipelineInit
    /\ IdleCfg
    /\ afbc_out = FALSE
    /\ desc_log = NoDescLog
    /\ crop_expr = NoCropExpr
    /\ dec = NoDec
    /\ rga_ver = {RGA_3, RGA_2_Enhance}
    /\ core_opt = 0
    /\ scheduler_core = 0
    /\ links = Request(<< Link("NV12", 1088, 64) >>, Link("NV12", 1088, 64),
                       NoParam, 0).lk
    /\ param = NoParam

Next ==
    \/ /\ \E outcome \in {"ok", "nohw", "hwfc", "info", "fifo"},
             huge, off_valid, translate \in BOOLEAN :
             Configure(outcome, huge, off_valid, translate)
       /\ UNCHANGED cfgvars
    \/ /\ \E has_pat, at_eof \in BOOLEAN, fault \in Faults :
             SubmitFrame(has_pat, fault, at_eof)
       /\ UNCHANGED cfgvars
    \/ /\ \E bad \in SUBSET FifoFences, dfail \in FifoFrames \cup {0} :
             EofDrain(bad, dfail)
       /\ UNCHANGED cfgvars
    \/ /\ \E bad \in SUBSET FifoFences : Close(bad)
       /\ UNCHANGED cfgvars
    \/ /\ \E f \in FifoFences : HwComplete(f)
       /\ UNCHANGED cfgvars

Spec == Init /\ [][Next]_vars

\* The configuration of a context: the driver reports a version string, the
\* filter is given a request (links, parameters, core option), and then
\* ff_rkrga_init, frames and uninit follow.
InitCfg ==
    /\ PipelineInit
    /\ IdleCfg
    /\ afbc_out = FALSE
    /\ desc_log = NoDescLog
    /\ crop_expr = NoCropExpr
    /\ dec = NoDec
    /\ async_depth = MaxDepth
    /\ rga_ver \in RgaVersions
    /\ \E q \in Requests :
          /\ links = q.lk
          /\ param = q.pm
          /\ core_opt = q.core
          /\ scheduler_core = q.core
          /\ nb_inputs = Len(q.lk.inputs)

NextCfg ==
    \/ \E fault \in {"none", "hwfc", "pathwfc", "fifo"} : RkrgaInit(fault)
    \/ \E has_pat \in BOOLEAN : FilterFrame(has_pat, DefaultTags)
    \/ Uninit

SpecCfg == InitCfg /\ [][NextCfg]_vars

\* The colour tags of the frames: a one-input filter on one hardware, every
\* format pair, frames with every combination of colorimetry and range.
InitCsc ==
    /\ PipelineInit
    /\ IdleCfg
    /\ afbc_out = FALSE
    /\ desc_log = NoDescLog
    /\ crop_expr = NoCropExpr
    /\ dec = NoDec
    /\ async_depth = MaxDepth
    /\ nb_inputs = 1
    /\ rga_ver = {RGA_3, RGA_2_Enhance}
    /\ core_opt = 0
    /\ scheduler_core = 0
    /\ param = NoParam
    /\ \E q \in FormatRequests : links = q.lk

NextCsc ==
    \/ RkrgaInit("none")
    \/ \E tags \in FrameTags : FilterFrame(FALSE, tags)
    \/ Uninit

SpecCsc == InitCsc /\ [][NextCsc]_vars

\* The format tables: every format of the two tables, and two formats the
\* tables lack, as the format of the input link, of the overlay link and of
\* the output link, on two kinds of hardware.
TablePixFmts ==
    { YUV_FORMATS[i][1] : i \in DOMAIN YUV_FORMATS }
    \cup { RGB_FORMATS[i][1] : i \in DOMAIN RGB_FORMATS }

OtherPixFmts == {"YUV444P", "RGB48LE"}

TableRequests ==
    { Request(<< Link(f, 1088, 64) >>, Link("NV12", 1088, 64), NoParam, 0) :
        f \in TablePixFmts \cup OtherPixFmts }
    \cup { Request(<< Link("NV12", 1088, 64) >>, Link(f, 1088, 64),
                   NoParam, 0) : f \in TablePixFmts \cup OtherPixFmts }
    \cup { Request(<< Link("NV12", 1088, 64), Link(f, 1088, 64) >>,
                   Link("NV12", 1088, 64), NoParam, 0) :
             f \in TablePixFmts \cup OtherPixFmts }

InitFmt ==
    /\ PipelineInit
    /\ IdleCfg
    /\ afbc_out = FALSE
    /\ desc_log = NoDescLog
    /\ crop_expr = NoCropExpr
    /\ dec = NoDec
    /\ async_depth = MaxDepth
    /\ rga_ver \in { {RGA_3, RGA_2_PRO}, {RGA_2_Enhance} }
    /\ core_opt = 0
    /\ scheduler_core = 0
    /\ \E q \in TableRequests :
          /\ links = q.lk
          /\ param = q.pm
          /\ nb_inputs = Len(q.lk.inputs)

NextFmt ==
    \/ RkrgaInit("none")
    \/ \E has_pat \in BOOLEAN : FilterFrame(has_pat, DefaultTags)
    \/ Uninit

SpecFmt == InitFmt /\ [][NextFmt]_vars

\* ---------------------------------------------- frames with descriptors
\* The descriptor of a frame of plane-0 pitch and rows given: plane 1 starts
\* after the rows of plane 0 and the object holds two planes' worth.
Desc(mod, code, pitch, rows) ==
    [drm |-> TRUE, fd |-> 3, modifier |-> mod, format |-> code,
     pitch |-> pitch, size |-> 2 * pitch * rows, offset1 |-> pitch * rows]

\* the pitch in bytes of a linear frame of format f whose rows hold nw
\* pixels
LinearPitch(f, nw) ==
    IF IsPlanar(f) THEN (IF f \in {"P010", "P210"} THEN 2 * nw ELSE nw)
    ELSE (nw * padded_bits_pp(f)) \div 8

\* Frames an upstream filter or decoder can hand to a link of format and
\* size lk: linear with the rows padded to 64 pixels, linear with rows one
\* pixel (planar: eight bytes) longer, linear with an odd row count, a
\* descriptor whose second plane has offset 0, a software frame, a
\* descriptor without a file descriptor, AFBC and RFBC frames of the
\* format's code, and an AFBC frame of another code.
FrameDescs(lk) ==
    LET f    == lk.sw_format
        nw   == FFALIGN(lk.w, 64)
        code == get_drm_afbc_format(f)
        lin  == Desc("LINEAR", "LINEAR", LinearPitch(f, nw), lk.h)
    IN  { lin,
          Desc("LINEAR", "LINEAR",
               LinearPitch(f, nw) + (IF IsPlanar(f) THEN 8
                                     ELSE padded_bits_pp(f) \div 8), lk.h),
          Desc("LINEAR", "LINEAR", LinearPitch(f, nw), lk.h + 1),
          [lin EXCEPT !.offset1 = 0, !.size = 0],
          [lin EXCEPT !.drm = FALSE],
          [lin EXCEPT !.fd = -1],
          Desc("AFBC", code, (nw * padded_bits_pp(f)) \div 8, lk.h),
          Desc("RFBC", code, (nw * padded_bits_pp(f)) \div 8, lk.h),
          Desc("AFBC", "YUYV_other", (nw * padded_bits_pp(f)) \div 8, lk.h) }

\* a wrapper construction that was not reached
Skip(b) == Built("skip", b.r, b.afbc, NoInfo)

\* the first wrapper construction of a call that failed, as the step of
\* ff_rkrga_filter_frame and the kind of failure
FirstFailure(s, d, pin, po, p) ==
    LET bad(b) == b.kind \notin {"none", "skip"}
    IN  IF bad(s) THEN [at |-> "src", kind |-> s.kind]
        ELSE IF bad(d) THEN [at |-> "dst", kind |-> d.kind]
        ELSE IF bad(pin) THEN [at |-> "prein", kind |-> pin.kind]
        ELSE IF bad(po) THEN [at |-> "preout", kind |-> po.kind]
        ELSE IF bad(p) THEN [at |-> "pat", kind |-> p.kind]
        ELSE NoFault

\* The operands of the c_RkRgaBlit calls of one ff_rkrga_filter_frame, from
\* the rga_info_t of the wrappers built (s, d, pin, po, p) and the output
\* scheduler core at the end of the PAT block
desc_operands(order, do_overlay, translate, in0, core, s, d, pin, po, p) ==
    LET dst    == IF do_overlay THEN [d.info EXCEPT !.core = core] ELSE d.info
        canvas == [po.info EXCEPT !.priority = 1, !.core = core,
                                  !.sync_mode = "SYNC"]
    IN  [i \in DOMAIN order |->
          IF order[i] = "sync"
          THEN [src |-> pin.info, dst |-> canvas, pat |-> NoInfo,
                has_pat |-> FALSE]
          ELSE [src |-> s.info, dst |-> dst,
                pat |-> IF ~do_overlay THEN NoInfo
                        ELSE IF translate
                        THEN [canvas EXCEPT
                                !.rect = rga_set_rect(0, 0, in0.act_w, in0.act_h)]
                        ELSE p.info,
                has_pat |-> do_overlay]]

\* An activation that consumed a frame whose descriptor is sd (and an
\* overlay frame pd): ff_rkrga_filter_frame with every wrapper
\* construction carried out on the descriptors, in the order of the code.
\* out_ok: the output buffer could be had.  The failures are those the
\* frames bring about; none is injected.
FrameDesc(has_pat, sd, pd, out_ok, tags) ==
    /\ phase = "ready"
    /\ host = "run"
    /\ ~eof
    /\ nframes < MaxDescFrames
    /\ nb_inputs = 1 => ~has_pat
    /\ overlay_ended => ~has_pat
    /\ overlay_ended' = (nb_inputs > 1 /\ ~has_pat)
    /\ LET do_overlay == nb_inputs > 1 /\ is_overlay_offset_valid /\ has_pat
           tr         == do_overlay /\ pat_translate
       IN  \E s \in {submit_desc(RCtx, links, afbc_out, 0, do_overlay, FALSE,
                                 sd, tags)} :
           \E d \in {IF s.kind = "none"
                     THEN query_desc(s.r, links, s.afbc, FALSE,
                                     IF out_ok THEN "ok" ELSE "alloc", tags)
                     ELSE Skip(s)} :
           \E pin \in {IF d.kind = "none" /\ tr
                       THEN submit_desc(d.r, links, d.afbc, 1, FALSE, TRUE,
                                        pd, DefaultTags)
                       ELSE Skip(d)} :
           \E po \in {IF pin.kind = "none" /\ tr
                      THEN query_desc(pin.r, links, pin.afbc, TRUE,
                                      IF pat_preproc_hwfc THEN "ok"
                                      ELSE "nohwfc", DefaultTags)
                      ELSE Skip(pin)} :
           \E p \in {IF d.kind = "none" /\ do_overlay /\ ~tr
                     THEN submit_desc(d.r, links, d.afbc, 1, FALSE, FALSE,
                                      pd, DefaultTags)
                     ELSE Skip(po)} :
           \E fault \in {FirstFailure(s, d, pin, po, p)} :
           \E res \in {rkrga_filter_frame(Ctx, Cfg, nframes + 1, has_pat,
                                          fault, {}, 0)} :
              /\ fault # NoFault => res.hit
              /\ SetCtx(res.c)
              /\ got_frame' = IF res.ret = "OK" THEN 0 ELSE res.c.got_frame
              /\ call' = Observe("frame", res, fault)
              /\ is_rga2_used' = p.r.is_rga2_used
              /\ in_rga_frame_infos' = p.r.in_rga_frame_infos
              /\ out_rga_frame_info' = p.r.out_rga_frame_info
              /\ afbc_out' = p.afbc
              /\ blit_log' = desc_operands(res.order, do_overlay, tr,
                                 in_rga_frame_infos[1],
                                 p.r.out_rga_frame_info.scheduler_core,
                                 s, d, pin, po, p)
              /\ desc_log' = [sd |-> sd,
                              pd |-> IF has_pat THEN pd ELSE NoDesc,
                              src |-> s.kind, dst |-> d.kind,
                              prein |-> pin.kind, preout |-> po.kind,
                              pat |-> p.kind]
    /\ nframes' = nframes + 1
    /\ UNCHANGED << phase, host, nb_inputs, async_depth,
                    is_overlay_offset_valid, pat_translate, eof, fifo_alloc,
                    fifo_cap, faults, closes, out_status_eof, hw_reordered,
                    rga_ver, core_opt, links, param, has_rga2, has_rga2l,
                    has_rga2e, has_rga2p, has_rga3, scheduler_core,
                    pat_preproc_hwfc, inits, crop_expr, dec >>

\* The requests whose frames are explored: same size and scaled, the core
\* option left alone and naming one RGA3 core, a 10-bit input, outputs only
\* RGA2 writes, without an AFBC code, 10-bit with rows not a multiple of 64,
\* and RGBA, two inputs composed in place and translated, an output wider
\* than 4096, an overlay narrower than 68, an input cropped to one row, and
\* a composition pinned to one RGA3 core.
DescRequests ==
    { Request(<< Link("NV12", 1088, 64) >>, Link("NV12", 1088, 64), NoParam, 0),
      Request(<< Link("NV12", 1088, 64) >>, Link("NV12", 544, 32), NoParam, 1),
      Request(<< Link("P010", 1088, 64) >>, Link("NV12", 1088, 64), NoParam, 0),
      Request(<< Link("NV12", 1088, 64) >>, Link("YUV420P", 1088, 64),
              NoParam, 0),
      Request(<< Link("NV12", 1088, 64) >>, Link("P010", 1088, 64), NoParam, 0),
      Request(<< Link("NV12", 1088, 64) >>, Link("NV15", 544, 32), NoParam, 0),
      Request(<< Link("RGBA", 1088, 64) >>, Link("RGBA", 1088, 64), NoParam, 0),
      OverlayRequest("NV12", "RGBA", << 1088, 64 >>, << 0, 0 >>, 128),
      OverlayRequest("NV12", "RGBA", << 200, 32 >>, << 50, 10 >>, 128),
      Request(<< Link("NV12", 1088, 64) >>, Link("NV12", 4100, 64), NoParam, 0),
      OverlayRequest("NV12", "RGBA", << 66, 64 >>, << 50, 10 >>, 128),
      Request(<< Link("RGBA", 1088, 64) >>, Link("RGBA", 1088, 64),
              [NoParam EXCEPT !.in_crop = TRUE, !.in_crop_w = 1088,
                              !.in_crop_h = 1], 0),
      [OverlayRequest("NV12", "RGBA", << 1088, 64 >>, << 0, 0 >>, 128)
          EXCEPT !.core = 1] }

DescVersions ==
    { {RGA_3, RGA_2_Enhance}, {RGA_3, RGA_2_PRO}, {RGA_3}, {RGA_2_Enhance} }

InitFrm ==
    /\ PipelineInit
    /\ IdleCfg
    /\ afbc_out \in BOOLEAN
    /\ desc_log = NoDescLog
    /\ crop_expr = NoCropExpr
    /\ dec = NoDec
    /\ async_depth = 1
    /\ rga_ver \in DescVersions
    /\ \E q \in DescRequests :
          /\ links = q.lk
          /\ param = q.pm
          /\ core_opt = q.core
          /\ scheduler_core = q.core
          /\ nb_inputs = Len(q.lk.inputs)

\* the frames of a composition: linear with padded rows, linear with longer
\* rows, linear without a file descriptor, AFBC
FewDescs(lk) ==
    LET f  == lk.sw_format
        nw == FFALIGN(lk.w, 64)
    IN  { Desc("LINEAR", "LINEAR", LinearPitch(f, nw), lk.h),
          Desc("LINEAR", "LINEAR",
               LinearPitch(f, nw) + (IF IsPlanar(f) THEN 8
                                     ELSE padded_bits_pp(f) \div 8), lk.h),
          [Desc("LINEAR", "LINEAR", LinearPitch(f, nw), lk.h) EXCEPT !.fd = -1],
          Desc("AFBC", get_drm_afbc_format(f),
               (nw * padded_bits_pp(f)) \div 8, lk.h) }

\* The output buffer cannot be had only for a frame that comes alone with
\* a linear descriptor of padded rows.
NextFrm ==
    \/ RkrgaInit("none")
    \/ \E sd \in FrameDescs(links.inputs[1]) :
          /\ nb_inputs = 1
          /\ \E out_ok \in BOOLEAN :
                /\ ~out_ok => sd \in FewDescs(links.inputs[1])
                                /\ sd.modifier = "LINEAR"
                /\ FrameDesc(FALSE, sd, NoDesc, out_ok, DefaultTags)
    \/ \E has_pat \in BOOLEAN :
          /\ nb_inputs > 1
          /\ \E sd \in FewDescs(links.inputs[1]) :
                \E pd \in (IF has_pat THEN FewDescs(links.inputs[2])
                           ELSE {NoDesc}) :
                   FrameDesc(has_pat, sd, pd, TRUE, DefaultTags)
    \/ Uninit

SpecFrm == InitFrm /\ [][NextFrm]_vars

\* ================================================================ claims
Range(q) == { q[i] : i \in DOMAIN q }

\* position of x in the submission history (0: never submitted)
Pos(x) == IF x \in Range(submitted)
          THEN CHOOSE i \in DOMAIN submitted : submitted[i] = x ELSE 0

IsPrefix(p, q) == Len(p) <= Len(q) /\ \A i \in DOMAIN p : p[i] = q[i]

\* C1: the frames handed downstream, by over-depth drains and by the
\* end-of-stream drain together, come in submission order: every delivered
\* frame was submitted, a frame submitted later is never delivered before one
\* submitted earlier, and as long as nothing failed the deliveries are
\* exactly the first submissions, whatever order the fences completed in.
C1_FifoOrder ==
    /\ \A i \in DOMAIN delivered : Pos(delivered[i]) > 0
    /\ \A i, j \in DOMAIN delivered :
          i < j => Pos(delivered[i]) < Pos(delivered[j])
    /\ faults = 0 => IsPrefix(delivered, submitted)

\* C1 witness: three or more frames delivered, partly by over-depth drains
\* and partly by the end-of-stream drain, after a fence completed before an
\* older one
C1_Witness ==
    /\ call.op = "drain"
    /\ call.ndeliv >= 1
    /\ Len(delivered) >= 3
    /\ call.ndeliv < Len(delivered)
    /\ hw_reordered

\* C2: with depth d and no failure, after N submissions max(0, N - d) frames
\* are delivered and min(N, d) are in flight until the end-of-stream drain;
\* the k-th submission delivers the oldest frame in flight if k > d and
\* nothing otherwise; a call with a frame never delivers more than one.
C2_DepthSchedule ==
    LET N == Len(submitted)
        d == async_depth
    IN  /\ (faults = 0 /\ phase = "ready" /\ ~eof) =>
              /\ Len(delivered) = (IF N > d THEN N - d ELSE 0)
              /\ Len(async_fifo) = FFMIN(N, d)
        /\ (faults = 0 /\ call.op = "frame") =>
              /\ call.ndeliv = (IF N > d THEN 1 ELSE 0)
              /\ N > d => delivered[Len(delivered)] = submitted[N - d]
        /\ call.op = "frame" => call.ndeliv <= 1

\* C2 witness: depth 2, five frames submitted without failure, three of them
\* delivered and two still in flight before end of stream
C2_Witness ==
    /\ async_depth = 2
    /\ faults = 0
    /\ ~eof
    /\ Len(submitted) = 5
    /\ Len(delivered) = 3
    /\ Len(async_fifo) = 2

\* C3: the FIFO is allocated with async_depth + 1 slots; the occupancy never
\* exceeds that inside a call, so no enqueue is refused (every submitted
\* operation is in the FIFO or was waited on), and it is at most async_depth
\* whenever ff_rkrga_filter_frame has returned.
C3_FifoBound ==
    /\ fifo_alloc => fifo_cap = async_depth + 1
    /\ call.peak <= async_depth + 1
    /\ Len(async_fifo) <= async_depth
    /\ \A n \in Range(submitted) : n \in FifoFences \/ n \in Range(wait_log)

\* C3 witness: a call filled the FIFO to async_depth + 1 and returned an
\* error with async_depth entries left
C3_Witness ==
    /\ call.op = "frame"
    /\ call.ret # "OK"
    /\ async_depth >= 1
    /\ call.peak = async_depth + 1
    /\ Len(async_fifo) = async_depth

\* C4: no frame is delivered twice; after an end-of-stream drain the FIFO is
\* empty unless a delivery failed; and when nothing failed, every submitted
\* operation has been delivered exactly once by then.
C4_DeliveredOnce ==
    /\ \A i, j \in DOMAIN delivered : i # j => delivered[i] # delivered[j]
    /\ (call.op = "drain" /\ call.ret = "OK") => async_fifo = << >>
    /\ (faults = 0 /\ eof /\ host = "eof") => delivered = submitted

\* C4 witness: an end-of-stream drain delivered two or more entries, more
\* than the depth would have released, and everything submitted is delivered
C4_Witness ==
    /\ call.op = "drain"
    /\ faults = 0
    /\ call.ndeliv >= 2
    /\ Len(submitted) >= 3
    /\ delivered = submitted
    /\ async_fifo = << >>

Pools == << src_frame_list, dst_frame_list, pat_frame_list,
            pat_preproc_frame_list >>

\* a step that is an end-of-stream drain following an end-of-stream drain
\* (the hardware completing a fence leaves call as it is)
DrainAfterDrain ==
    /\ call.op = "drain"
    /\ call'.op = "drain"
    /\ ~(call' = call /\ signalled' # signalled)

DrainNoOp ==
    /\ call'.ret = "OK"
    /\ call'.ndeliv = 0
    /\ delivered' = delivered
    /\ wait_log' = wait_log
    /\ async_fifo' = async_fifo
    /\ Pools' = Pools
    /\ got_frame' = got_frame

C6_AlwaysWaited ==
    /\ \A n \in Range(submitted) : n \in FifoFences \/ n \in Range(wait_log)
    /\ \A i \in DOMAIN async_fifo :
          LET a == async_fifo[i]
          IN  /\ src_frame_list[a.src].locked = 1
              /\ src_frame_list[a.src].frame # 0
              /\ dst_frame_list[a.dst].locked = 1
              /\ dst_frame_list[a.dst].frame # 0
              /\ dst_frame_list[a.dst].fence \notin Range(wait_log)
              /\ a.pat # 0 => /\ pat_frame_list[a.pat].locked = 1
                              /\ pat_frame_list[a.pat].frame # 0
    /\ phase = "closed" =>
          /\ async_fifo = << >>
          /\ \A n \in Range(submitted) : n \in Range(wait_log)

\* C6 witness: a closed context, after end of stream, in which an operation
\* was waited on without a wait failure and yet not delivered (a delivery
\* failed and the rest was left to close)
C6_Witness ==
    /\ phase = "closed"
    /\ eof
    /\ Len(submitted) >= 2
    /\ sync_failed = {}
    /\ \E n \in Range(wait_log) : n \notin Range(delivered)
    /\ wait_log = submitted

\* C7: ff_rkrga_close delivers nothing, waits on the fence of every entry
\* left in the FIFO, in FIFO order and whether or not an earlier wait failed,
\* unlocks the wrappers of each entry and leaves the FIFO empty.
C7_CloseDiscards ==
    [][closes' = closes + 1 =>
          /\ delivered' = delivered
          /\ async_fifo' = << >>
          /\ wait_log' = wait_log \o
                [i \in 1..Len(async_fifo) |->
                    dst_frame_list[async_fifo[i].dst].fence]
          /\ \A bad \in SUBSET FifoFences :
                LET c == rga_drain_fifo(Ctx, bad)
                IN  /\ c.delivered = delivered
                    /\ \A i \in DOMAIN async_fifo :
                          LET a == async_fifo[i]
                          IN  /\ c.src[a.src].locked = 0
                              /\ c.dst[a.dst].locked = 0
                              /\ a.pat # 0 => c.pat[a.pat].locked = 0]_vars

\* C7 witness: a context closed without end of stream with two operations in
\* flight, the wait on the older one failed, the newer one was waited on too
C7_Witness ==
    /\ phase = "closed"
    /\ ~eof
    /\ delivered = << >>
    /\ Len(submitted) = 2
    /\ wait_log = submitted
    /\ wait_log[1] \in sync_failed

\* C8: after ff_rkrga_close the four pools are empty and the FIFO is gone;
\* the call returns success; on a context that is already closed, or whose
\* configuration failed, it changes nothing.
C8_CloseIdempotent ==
    [][closes' = closes + 1 =>
          /\ Pools' = << << >>, << >>, << >>, << >> >>
          /\ ~fifo_alloc'
          /\ async_fifo' = << >>
          /\ call'.ret = "OK"
          /\ phase \in {"closed", "failed"} =>
                /\ Pools' = Pools
                /\ async_fifo' = async_fifo
                /\ fifo_alloc' = fifo_alloc
                /\ UNCHANGED << delivered, wait_log, submitted, sync_failed,
                                eof, got_frame, async_depth, signalled >>]_vars

\* C8 witness: a context that processed frames was closed twice
C8_Witness ==
    /\ closes = 2
    /\ phase = "closed"
    /\ Len(submitted) >= 2

\* C9: a call whose blit fails, or whose asynchronous blit returns an invalid
\* fence, returns the external error, enqueues and delivers nothing, waits on
\* nothing and locks no wrapper.
C9_BlitFailure ==
    [][(call'.op = "frame" /\ nframes' = nframes + 1
        /\ call'.fault \in {"blit", "preblit"}) =>
          /\ call'.ret = "EXTERNAL"
          /\ call'.ndeliv = 0
          /\ async_fifo' = async_fifo
          /\ submitted' = submitted
          /\ delivered' = delivered
          /\ wait_log' = wait_log
          /\ \A k \in 1..4 : \A i \in DOMAIN Pools'[k] :
                Pools'[k][i].locked = 1 =>
                    i \in DOMAIN Pools[k] /\ Pools[k][i].locked = 1]_vars

\* C9 witness: an asynchronous blit returned an invalid fence while another
\* operation was in flight
C9_Witness ==
    /\ call.op = "frame"
    /\ call.fault = "blit"
    /\ call.kind = "badfence"
    /\ call.ret = "EXTERNAL"
    /\ Len(async_fifo) >= 1

\* C10 as stated: the frame of an operation whose fence wait failed is never
\* delivered, and a call of ff_rkrga_filter_frame that returned success did
\* not see a fence wait fail.
C10_AsClaimed ==
    /\ \A f \in sync_failed : f \notin Range(delivered)
    /\ (call.op \in {"frame", "drain"} /\ call.ret = "OK") =>
          \A i \in DOMAIN wait_log :
              i > Len(wait_log) - call.ndeliv => wait_log[i] \notin sync_failed

\* C11 as stated: end-of-stream is signalled downstream only after the drain
\* of all in-flight entries: once the EOF status is set on the output the
\* FIFO is empty, every submitted frame has been delivered, and no frame is
\* delivered afterwards.
C11_AsClaimed ==
    /\ [](out_status_eof =>
            /\ async_fifo = << >>
            /\ Range(submitted) \subseteq Range(delivered))
    /\ [][out_status_eof => delivered' = delivered]_vars

\* ------------------------------------------------ configuration claims
\* the request names a 10-bit format on the input or on the output
HighDepthRequested ==
    \/ links.inputs[1].sw_format \in {"P010", "P210"}
    \/ links.output.sw_format \in {"P010", "P210"}

\* C12: when the version string names no RGA3, a request with P010 or P210
\* as source or destination format never gets configured: every
\* ff_rkrga_init fails, and no frame is ever submitted or delivered.
C12_HighDepthNeedsRga3 ==
    (~strstr(rga_ver, RGA_3) /\ HighDepthRequested) =>
        /\ phase # "ready"
        /\ call.op = "init" => call.ret # "OK"
        /\ submitted = << >>
        /\ delivered = << >>

\* C12 witness: on RGA2-only hardware ff_rkrga_init got as far as
\* verify_rga_frame_info with a 10-bit request and failed there
C12_Witness ==
    /\ strstr(rga_ver, RGA_2)
    /\ ~strstr(rga_ver, RGA_3)
    /\ HighDepthRequested
    /\ call.op = "init"
    /\ call.kind = "info"
    /\ call.ret = "ENOSYS"
    /\ phase = "failed"

\* C13: with a version string that names neither RGA2 nor RGA3,
\* ff_rkrga_init returns ENOSYS from its early return: no frame info is
\* filled, no frames context, buffer pool or FIFO exists, and the context
\* never becomes ready.
C13_NoUnitFailsEarly ==
    (~strstr(rga_ver, RGA_2) /\ ~strstr(rga_ver, RGA_3)) =>
        /\ phase # "ready"
        /\ call.op = "init" => (call.ret = "ENOSYS" /\ call.kind = "nohw")
        /\ in_rga_frame_infos = << >>
        /\ out_rga_frame_info = NewRGAFrameInfo
        /\ ~pat_preproc_hwfc
        /\ ~fifo_alloc
        /\ async_fifo = << >>
        /\ src_frame_list = << >> /\ dst_frame_list = << >>
        /\ pat_frame_list = << >> /\ pat_preproc_frame_list = << >>

\* C13 witness: ff_rkrga_init ran on RGA1-only hardware and returned ENOSYS
C13_Witness ==
    /\ rga_ver = {RGA_1}
    /\ call.op = "init"
    /\ call.ret = "ENOSYS"
    /\ phase = "failed"
    /\ inits = 1

\* the "core" option given is one that ff_rkrga_init ignores: a bit outside
\* the mask of the units detected (0x7, 0xf with RGA2-Pro), or any value
\* on hardware that has not both RGA2 and RGA3 and no RGA2-Pro
InvalidOverride ==
    /\ core_opt # 0
    /\ \/ BitAnd(core_opt, IF strstr(rga_ver, RGA_2_PRO) THEN 15 ELSE 7)
              # core_opt
       \/ /\ ~(strstr(rga_ver, RGA_2) /\ strstr(rga_ver, RGA_3))
          /\ ~strstr(rga_ver, RGA_2_PRO)

\* C14: a first configuration with an ignored core option returns what the
\* same configuration with the option left at 0 returns (so the option
\* alone never makes the configuration fail), and where a unit was detected
\* it ends with the same units, the same legacy-unit flag and the same
\* resolved core.  (With no unit detected ff_rkrga_init returns before it
\* looks at the option.)
C14_InvalidOverrideIgnored ==
    [][(inits = 0 /\ inits' = 1 /\ InvalidOverride
        /\ call'.kind \notin {"hwfc", "fifo"}) =>
          \A ref \in {ff_rkrga_init([RCtx EXCEPT !.scheduler_core = 0],
                                    rga_ver, links, param, "none")} :
              /\ call'.ret = ref.ret
              /\ (strstr(rga_ver, RGA_2) \/ strstr(rga_ver, RGA_3)) =>
                    /\ has_rga2' = ref.r.has_rga2
                    /\ has_rga3' = ref.r.has_rga3
                    /\ is_rga2_used' = ref.r.is_rga2_used
                    /\ scheduler_core' = ref.r.scheduler_core
                    /\ out_rga_frame_info' = ref.r.out_rga_frame_info]_vars

\* C14 witness: on RGA3 + RGA2-Enhance the option 0x8 (the second RGA2
\* core, which only RGA2-Pro has) was given and the filter got configured
C14_Witness ==
    /\ rga_ver = {RGA_3, RGA_2_Enhance}
    /\ core_opt = 8
    /\ InvalidOverride
    /\ inits = 1
    /\ call.op = "init"
    /\ call.ret = "OK"
    /\ phase = "ready"
    /\ scheduler_core # core_opt

\* the context as the filter's init callback leaves it, before any
\* configuration: the option as the user gave it, no unit resolved
FreshCtx ==
    [RCtx EXCEPT !.scheduler_core = core_opt, !.is_rga2_used = FALSE,
                 !.async_depth = MaxDepth,
                 !.in_rga_frame_infos = << >>,
                 !.out_rga_frame_info = NewRGAFrameInfo,
                 !.pat_preproc_hwfc = FALSE]

AtMinWidth ==
    /\ nb_inputs = 1
    /\ links.inputs[1].w = 68
    /\ links.output.w = 68
    /\ links.output.h = links.inputs[1].h
    /\ links.inputs[1].sw_format \in {"NV12", "RGBA"}
    /\ links.output.sw_format = links.inputs[1].sw_format
    /\ ~param.in_crop

\* the same request with the input one pixel narrower
OnePixelBelow == [links EXCEPT !.inputs[1].w = 67]

ClaimedRatioMax ==
    IF \/ (is_rga2_used /\ strstr(rga_ver, RGA_2_lite))
       \/ (~is_rga2_used /\ ~strstr(rga_ver, RGA_2))
       \/ (scheduler_core > 0 /\ BitAnd(scheduler_core, 3) = scheduler_core)
    THEN 8 ELSE 16

\* both ratios of the active output size to the active input size lie in
\* [1/M, M], M being ClaimedRatioMax
RatiosInRange ==
    /\ ~RatioLT(out_rga_frame_info.act_w, in_rga_frame_infos[1].act_w,
                1, ClaimedRatioMax)
    /\ ~RatioGT(out_rga_frame_info.act_w, in_rga_frame_infos[1].act_w,
                ClaimedRatioMax, 1)
    /\ ~RatioLT(out_rga_frame_info.act_h, in_rga_frame_infos[1].act_h,
                1, ClaimedRatioMax)
    /\ ~RatioGT(out_rga_frame_info.act_h, in_rga_frame_infos[1].act_h,
                ClaimedRatioMax, 1)

\* C17: in a configuration that was accepted both scale ratios lie in
\* [1/M, M], M being 8 or 16 as above: a ratio outside the range on either
\* axis made ff_rkrga_init fail.  And M is not smaller than that: a
\* configuration that verify_rga_frame_info refused with EINVAL, on sizes
\* inside the limits of the units, has a ratio outside the range.
C17_ScaleRatioRange ==
    /\ phase = "ready" => RatiosInRange
    /\ (/\ call.op = "init" /\ call.kind = "info" /\ call.ret = "EINVAL"
        /\ out_rga_frame_info.act_w \in 1..4096
        /\ out_rga_frame_info.act_h \in 1..4096) => ~RatiosInRange

\* C17 witness: on RGA2-lite a request that scales the width by exactly 8
\* was accepted
C17_Witness ==
    /\ phase = "ready"
    /\ is_rga2_used
    /\ strstr(rga_ver, RGA_2_lite)
    /\ ClaimedRatioMax = 8
    /\ out_rga_frame_info.act_w = 8 * in_rga_frame_infos[1].act_w

\* the overlay's active size differs from the primary's, or its offset (as
\* ff_rkrga_init stored it) is not (0,0)
OverlayDisplaced ==
    \/ in_rga_frame_infos[2].act_w # in_rga_frame_infos[1].act_w
    \/ in_rga_frame_infos[2].act_h # in_rga_frame_infos[1].act_h
    \/ in_rga_frame_infos[2].overlay_x # 0
    \/ in_rga_frame_infos[2].overlay_y # 0

\* the last call of ff_rkrga_filter_frame processed a frame on the
\* composite path: its asynchronous blit had a pattern operand
Composited ==
    /\ call.op = "frame"
    /\ call.ret = "OK"
    /\ nb_inputs = 2
    /\ blit_log # << >>
    /\ blit_log[Len(blit_log)].has_pat

\* C18: a frame processed on the composite path with a displaced overlay
\* had exactly one synchronous pre-composite blit, made before its
\* asynchronous blend blit, and the blend's pattern operand is the canvas
\* that blit wrote, with the rectangle (0,0) and the primary's active size;
\* with an overlay of the primary's size at (0,0) there is no pre-composite
\* blit and the pattern operand is the overlay frame itself.
C18_PreCompositeOnce ==
    Composited =>
        IF OverlayDisplaced
        THEN /\ call.order = << "sync", "async" >>
             /\ call.pre_blits = 1
             /\ blit_log[1].dst.sync_mode = "SYNC"
             /\ ~blit_log[1].has_pat
             /\ blit_log[2].pat =
                  [blit_log[1].dst EXCEPT
                     !.rect = rga_set_rect(0, 0, in_rga_frame_infos[1].act_w,
                                           in_rga_frame_infos[1].act_h)]
        ELSE /\ call.order = << "async" >>
             /\ call.pre_blits = 0
             /\ blit_log[1].pat.rect =
                  rga_set_rect(0, 0, in_rga_frame_infos[2].act_w,
                               in_rga_frame_infos[2].act_h)

\* C18 witness: a 200x32 overlay at (50,10) on a 1088x64 primary was
\* composited: pre-composite blit, then the blend over the whole primary
C18_Witness ==
    /\ Composited
    /\ in_rga_frame_infos[2].act_w = 200
    /\ in_rga_frame_infos[2].overlay_x = 50
    /\ in_rga_frame_infos[2].overlay_y = 10
    /\ call.order = << "sync", "async" >>
    /\ blit_log[1].dst.rect = rga_set_rect(50, 10, 200, 32)
    /\ blit_log[2].pat.rect = rga_set_rect(0, 0, 1088, 64)

\* C19: in a configured two-input filter the blend mode of the primary
\* input depends on the global alpha a and on the alpha channel of the
\* overlay format only: for 0 < a < 255 its bits 16-23 hold a, its bits
\* 24-31 hold 0xff and its low 16 bits hold 0x4, with bit 12 set iff the
\* overlay format has alpha; for a = 0 and a = 255 it is 0x504 with and
\* 0x501 without overlay alpha.  Among the descriptors handed to the blits
\* of a frame only the source of a blend (a blit with a pattern operand)
\* carries it; those of the pre-composite blit carry 0.
C19_BlendMode ==
    (phase = "ready" /\ nb_inputs = 2) =>
        /\ IF param.in_global_alpha > 0 /\ param.in_global_alpha < 255
           THEN /\ (in_rga_frame_infos[1].blend_mode \div 2^16) % 256
                      = param.in_global_alpha
                /\ (in_rga_frame_infos[1].blend_mode \div 2^24) % 256 = 255
                /\ in_rga_frame_infos[1].blend_mode % 2^16 =
                      IF HasAlpha(links.inputs[2].sw_format)
                      THEN 4 + 2^12 ELSE 4
           ELSE in_rga_frame_infos[1].blend_mode =
                      IF HasAlpha(links.inputs[2].sw_format)
                      THEN 1284 ELSE 1281
        /\ \A i \in DOMAIN blit_log :
              /\ blit_log[i].dst.blend = 0
              /\ blit_log[i].pat.blend = 0
              /\ blit_log[i].src.blend =
                    IF blit_log[i].has_pat
                    THEN in_rga_frame_infos[1].blend_mode ELSE 0

\* C19 witness: an overlay with alpha was pre-composited and blended with
\* the global alpha 127
C19_Witness ==
    /\ Composited
    /\ param.in_global_alpha = 127
    /\ HasAlpha(links.inputs[2].sw_format)
    /\ call.order = << "sync", "async" >>
    /\ blit_log[1].src.blend = 0
    /\ blit_log[2].src.blend = in_rga_frame_infos[1].blend_mode
    /\ (blit_log[2].src.blend \div 2^16) % 256 = 127

\* the conversions set_colorspace_info has a mode for, by the formats of
\* the links and the tags of the input frame: full-range RGB to YUV and
\* limited-range YUV to RGB in BT.709 and BT.601, full-range YUV to RGB in
\* BT.601
SupportedConversion(tags) ==
    \/ /\ IsRGB(links.inputs[1].sw_format)
       /\ ~IsRGB(links.output.sw_format)
       /\ tags.color_range = "JPEG"
       /\ tags.colorspace \in {"BT709", "BT470BG"}
    \/ /\ ~IsRGB(links.inputs[1].sw_format)
       /\ IsRGB(links.output.sw_format)
       /\ \/ /\ tags.color_range = "MPEG"
             /\ tags.colorspace \in {"BT709", "BT470BG"}
          \/ /\ tags.color_range = "JPEG"
             /\ tags.colorspace = "BT470BG"

\* the last call of ff_rkrga_filter_frame processed a frame of a one-input
\* filter
Converted ==
    /\ call.op = "frame"
    /\ call.ret = "OK"
    /\ nb_inputs = 1
    /\ Len(blit_log) = 1

\* C20: for a frame converted within one colour family, or across families
\* with a range and colorimetry that have no conversion mode, the
\* destination descriptor has the colour-space mode 0 and the output frame
\* has the tags of the input frame, but for the range of a YUVJ input
\* converted to YUV, which is full; a supported conversion has a mode
\* other than 0.
C20_NoConversionKeepsTags ==
    Converted =>
        IF SupportedConversion(blit_log[1].src.tags)
        THEN blit_log[1].dst.color_space_mode # 0
        ELSE /\ blit_log[1].dst.color_space_mode = 0
             /\ blit_log[1].dst.tags =
                  IF /\ links.inputs[1].sw_format \in {"YUVJ420P", "YUVJ422P"}
                     /\ ~IsRGB(links.output.sw_format)
                  THEN [blit_log[1].src.tags EXCEPT !.color_range = "JPEG"]
                  ELSE blit_log[1].src.tags

\* C20 witness: a full-range BT.709 YUV frame was converted to RGB, a
\* combination without a mode
C20_Witness ==
    /\ Converted
    /\ links.inputs[1].sw_format = "NV12"
    /\ links.output.sw_format = "RGBA"
    /\ blit_log[1].src.tags.color_range = "JPEG"
    /\ blit_log[1].src.tags.colorspace = "BT709"
    /\ blit_log[1].dst.color_space_mode = 0
    /\ blit_log[1].dst.tags = blit_log[1].src.tags

\* ------------------------------------------------- frame-time claims
\* the table map_av_to_rga_format searches for a pad
TableOf(is_overlay) ==
    IF is_overlay THEN RGB_FORMATS ELSE YUV_FORMATS \o RGB_FORMATS

InTable(f, is_overlay) ==
    \E i \in DOMAIN TableOf(is_overlay) : TableOf(is_overlay)[i][1] = f

\* formats of one class: the same colour family and the same component
\* depth (they differ in range, in alpha being ignored or in packing)
SameClass(f, g) == IsRGB(f) = IsRGB(g) /\ comp0_depth(f) = comp0_depth(g)

\* the pads of the configured links: << format, is_overlay >>
Pads ==
    { << links.inputs[nb].sw_format, nb > 1 >> : nb \in DOMAIN links.inputs }
    \cup { << links.output.sw_format, FALSE >> }

\* C21: in the main table and in the overlay table every entry (f, n) is
\* found by the lookup of f, which yields n; no format has two entries in
\* one table; formats of one table with the same native format are of one
\* class; a format the table of the pad lacks is not found, and a
\* configuration with such a pad fails as unsupported (ENOSYS), while an
\* accepted one holds the native formats of the table in its frame infos.
C21_TablesMapped ==
    /\ \A ov \in BOOLEAN :
         /\ \A i \in DOMAIN TableOf(ov) :
              map_av_to_rga_format(TableOf(ov)[i][1], ov) = TableOf(ov)[i][2]
         /\ \A i, j \in DOMAIN TableOf(ov) :
              /\ TableOf(ov)[i][1] = TableOf(ov)[j][1] => i = j
              /\ TableOf(ov)[i][2] = TableOf(ov)[j][2] =>
                     SameClass(TableOf(ov)[i][1], TableOf(ov)[j][1])
         /\ \A f \in TablePixFmts \cup OtherPixFmts :
              ~InTable(f, ov) => map_av_to_rga_format(f, ov) = "none"
    /\ (call.op = "init" /\ call.kind # "nohw") =>
         /\ (\E p \in Pads : ~InTable(p[1], p[2])) =>
                (call.ret = "ENOSYS" /\ call.kind = "info" /\ phase = "failed")
         /\ call.kind = "ok" =>
              /\ \A nb \in DOMAIN links.inputs :
                   \E i \in DOMAIN TableOf(nb > 1) :
                      TableOf(nb > 1)[i] =
                         << links.inputs[nb].sw_format,
                            in_rga_frame_infos[nb].rga_fmt >>
              /\ \E i \in DOMAIN TableOf(FALSE) :
                    TableOf(FALSE)[i] = << links.output.sw_format,
                                           out_rga_frame_info.rga_fmt >>

\* C21 witness: a two-input configuration whose overlay link has a format
\* of the main table that the overlay table lacks was refused
C21_Witness ==
    /\ call.op = "init"
    /\ call.ret = "ENOSYS"
    /\ nb_inputs = 2
    /\ links.inputs[2].sw_format = "NV12"
    /\ InTable("NV12", FALSE)
    /\ ~InTable("NV12", TRUE)

\* the wrappers of the FIFO entry a in the pools s, d, p
Wrappers(a, s, d, p) ==
    << s[a.src], d[a.dst] >> \o (IF a.pat # 0 THEN << p[a.pat] >> ELSE << >>)

\* C22: after every step, each wrapper of an operation in the FIFO (it was
\* submitted, and not yet popped) is locked and holds its frame, and no
\* two operations in the FIFO share a wrapper; an operation that stays in
\* the FIFO over a step keeps its wrappers as they were (frame reference,
\* flags and fence: no pool scan dropped the reference and no pick handed
\* the wrapper out), and the wrappers a frame call picked are none of the
\* operations that were in the FIFO before it.
C22_InFlightStep ==
    /\ \A i \in DOMAIN async_fifo' :
         /\ \A k \in DOMAIN Wrappers(async_fifo'[i], src_frame_list',
                                     dst_frame_list', pat_frame_list') :
              LET w == Wrappers(async_fifo'[i], src_frame_list',
                                dst_frame_list', pat_frame_list')[k]
              IN  w.locked = 1 /\ w.queued >= 1 /\ w.frame # 0
         /\ \A j \in DOMAIN async_fifo' :
              j # i => /\ async_fifo'[j].src # async_fifo'[i].src
                       /\ async_fifo'[j].dst # async_fifo'[i].dst
                       /\ async_fifo'[i].pat # 0 =>
                              async_fifo'[j].pat # async_fifo'[i].pat
    /\ \A a \in Range(async_fifo) \cap Range(async_fifo') :
         Wrappers(a, src_frame_list', dst_frame_list', pat_frame_list')
           = Wrappers(a, src_frame_list, dst_frame_list, pat_frame_list)
    /\ (call'.op = "frame" /\ nframes' # nframes) =>
         \A a \in Range(async_fifo) :
            /\ call'.src # a.src
            /\ call'.dst # a.dst
            /\ a.pat # 0 => call'.pat # a.pat

C22_InFlightLocked == [][C22_InFlightStep]_vars

\* C22 witness: a composition in flight while the wrappers of a later frame
\* were picked from the three pools, two operations being in the FIFO
C22_Witness ==
    /\ Len(async_fifo) = 2
    /\ async_fifo[1].pat # 0
    /\ call.op = "frame"
    /\ call.ret = "OK"
    /\ call.pat # 0
    /\ pat_frame_list[async_fifo[1].pat].locked = 1
    /\ src_frame_list[async_fifo[1].src].frame # 0

\* the operations a step took out of the FIFO: those that were in it, or
\* were written to it by the step, and are not in it afterwards
Popped ==
    (Range(async_fifo)
       \cup (IF submitted' # submitted
             THEN {[src |-> call'.src, dst |-> call'.dst, pat |-> call'.pat]}
             ELSE {}))
    \ Range(async_fifo')

\* C23, as claimed: after a frame call or an end-of-stream drain that read
\* an operation from the FIFO and waited on its fence, the next scan of
\* its pool (clear_unused_frames) leaves each wrapper of the operation,
\* source, destination and pattern, with queued = 0, whatever the outcome
\* of the wait and of the delivery was.
C23_AsClaimedStep ==
    (call'.op \in {"frame", "drain"} /\ wait_log' # wait_log) =>
        \A a \in Popped :
           \A k \in DOMAIN Wrappers(a, src_frame_list', dst_frame_list',
                                    pat_frame_list') :
              Wrappers(a, clear_unused_frames(src_frame_list'),
                       clear_unused_frames(dst_frame_list'),
                       clear_unused_frames(pat_frame_list'))[k].queued = 0

C23_AsClaimed == [][C23_AsClaimedStep]_vars

\* ------------------------------------------------- frame-descriptor claims
\* a descriptor submit_frame cannot build a wrapper of format f from: a
\* software frame, no file descriptor, a stride or row count that is not
\* positive, a compressed layer whose code is not the code of the format
BadDesc(d, f) ==
    \/ ~d.drm
    \/ d.fd < 0
    \/ /\ d.modifier = "LINEAR"
       /\ \/ d.pitch * 8 < padded_bits_pp(f)
          \/ d.size < d.pitch /\ ~IsPlanar(f)
          \/ d.offset1 < d.pitch /\ IsPlanar(f)
    \/ d.modifier = "AFBC" /\ d.format # get_drm_afbc_format(f)
    \/ d.modifier = "RFBC" /\ d.format # get_drm_rfbc_format(f)

\* a wrapper construction of the last call failed
BuildFailed(l) ==
    \E k \in {"src", "dst", "prein", "preout", "pat"} :
       l[k] \notin {"none", "skip"}

\* C24: a call of ff_rkrga_filter_frame in which the construction of the
\* source, destination or pattern wrapper fails returns an error, issues
\* no blit, enqueues and delivers nothing and leaves the FIFO and every
\* wrapper of an operation in flight as they were; the construction does
\* fail for a source frame that is not a DRM frame, has a negative file
\* descriptor, a stride or row count that is not positive or a compressed
\* layer of another code, for a pattern frame of that kind once source and
\* destination were built, and when the output buffer cannot be had; and a
\* call that returns success has enqueued its frame.
C24_BuildStep ==
    (call'.op = "frame" /\ nframes' # nframes) =>
        LET l   == desc_log'
            in0 == in_rga_frame_infos[1].pix_fmt
        IN  /\ BadDesc(l.sd, in0) => l.src \in {"notdrm", "desc"}
            /\ (l.src = "none" /\ l.dst = "none" /\ l.pd # NoDesc
                /\ is_overlay_offset_valid
                /\ BadDesc(l.pd, in_rga_frame_infos[2].pix_fmt)) =>
                  (l.prein = "desc" \/ l.pat = "desc")
            /\ BuildFailed(l) =>
                  /\ call'.ret = "ENOMEM"
                  /\ call'.blits = 0
                  /\ call'.pre_blits = 0
                  /\ blit_log' = << >>
                  /\ async_fifo' = async_fifo
                  /\ submitted' = submitted
                  /\ delivered' = delivered
                  /\ \A i \in DOMAIN async_fifo :
                        Wrappers(async_fifo[i], src_frame_list',
                                 dst_frame_list', pat_frame_list')
                        = Wrappers(async_fifo[i], src_frame_list,
                                   dst_frame_list, pat_frame_list)
            /\ call'.ret = "OK" =>
                  /\ ~BuildFailed(l)
                  /\ submitted' = Append(submitted, nframes')

C24_BuildFailure == [][C24_BuildStep]_vars

\* C24 witness: with an operation in flight, a composing call whose source
\* and destination wrappers were built failed on a pattern frame without a
\* file descriptor
C24_Witness ==
    /\ call.op = "frame"
    /\ call.ret = "ENOMEM"
    /\ desc_log.src = "none"
    /\ desc_log.dst = "none"
    /\ desc_log.pat = "desc"
    /\ desc_log.pd.fd < 0
    /\ Len(async_fifo) = 1
    /\ src_frame_list[async_fifo[1].src].locked = 1

\* the output scheduler core is non-zero and names RGA3 cores only
Rga3Only(core) == core > 0 /\ core = BitAnd(core, 3)

\* d is an uncompressed frame of input info whose strides can be derived
\* and do not meet the RGA3 alignment of the format
StrideIncompat(d, info) ==
    /\ d.drm
    /\ d.fd >= 0
    /\ d.modifier = "LINEAR"
    /\ get_pixel_stride(d, info.pix_fmt).ret = "OK"
    /\ ~is_pixel_stride_rga3_compat(get_pixel_stride(d, info.pix_fmt).ws,
                                    get_pixel_stride(d, info.pix_fmt).hs,
                                    info.rga_fmt)

\* a step that is a call of ff_rkrga_filter_frame with a frame
FrameStep == call'.op = "frame" /\ nframes' # nframes

\* C25 as claimed: a source frame whose strides RGA3 cannot read, met with
\* an output scheduler core of RGA3 cores only, sets the flag and the core
\* 0x4, the blit of that frame is issued with core 0x4, and later frames
\* keep both.
C25_AsClaimedStep ==
    FrameStep =>
        /\ (Rga3Only(out_rga_frame_info.scheduler_core)
            /\ StrideIncompat(desc_log'.sd, in_rga_frame_infos[1])) =>
              /\ is_rga2_used'
              /\ out_rga_frame_info'.scheduler_core = 4
              /\ desc_log'.dst = "none" /\ ~BuildFailed(desc_log') =>
                    /\ call'.blits = 1
                    /\ blit_log'[Len(blit_log')].dst.core = 4
        /\ (is_rga2_used /\ out_rga_frame_info.scheduler_core = 4) =>
              /\ is_rga2_used'
              /\ out_rga_frame_info'.scheduler_core = 4

C25_AsClaimed == [][C25_AsClaimedStep]_vars

\* the legacy unit can take the session over: the dynamic limits hold for
\* input info once the flag is set
LegacyAccepts(info) ==
    verify_rga_frame_info_io_dynamic([RCtx EXCEPT !.is_rga2_used = TRUE],
                                     info, out_rga_frame_info) = "OK"

\* every blit of the call was issued with core on its destination
BlitsOnCore(log, core) == \A i \in DOMAIN log : log[i].dst.core = core

\* what the stride fallback does on a frame of input info
FallbackEffect(info) ==
    /\ is_rga2_used'
    /\ IF LegacyAccepts(info)
       THEN /\ out_rga_frame_info'.scheduler_core = 4
            /\ BlitsOnCore(blit_log', 4)
            /\ ~BuildFailed(desc_log') =>
                  call'.blits = 1 /\ blit_log' # << >>
       ELSE /\ call'.ret = "ENOMEM"
            /\ call'.blits = 0
            /\ blit_log' = << >>
            /\ out_rga_frame_info'.scheduler_core
                  = out_rga_frame_info.scheduler_core

\* C25 (amended): when the output scheduler core is non-zero with RGA3
\* cores only and an uncompressed source or pattern frame has strides RGA3
\* cannot read, the flag is set; if the dynamic limits of the legacy unit
\* then hold, the core becomes 0x4 and the blits of that frame are issued
\* with it, otherwise the call fails without a blit and the core stays.
\* Over later frames the flag stays set, a core of 0x4 stays 0x4, and a
\* frame that meets the flag with RGA3 cores only fails without a blit: no
\* blit is issued on an RGA3 core again.
C25_FallbackStep ==
    FrameStep =>
        LET l    == desc_log'
            core == out_rga_frame_info.scheduler_core
        IN  /\ (Rga3Only(core) /\ StrideIncompat(l.sd, in_rga_frame_infos[1]))
                  => FallbackEffect(in_rga_frame_infos[1])
            /\ (Rga3Only(core) /\ ~is_rga2_used
                /\ l.src = "none" /\ l.dst = "none" /\ l.pd # NoDesc
                /\ is_overlay_offset_valid
                /\ ~StrideIncompat(l.sd, in_rga_frame_infos[1])
                /\ StrideIncompat(l.pd, in_rga_frame_infos[2]))
                  => FallbackEffect(in_rga_frame_infos[2])
            /\ is_rga2_used => is_rga2_used'
            /\ core = 4 => out_rga_frame_info'.scheduler_core = 4
            /\ (is_rga2_used /\ Rga3Only(core)) =>
                  /\ call'.ret = "ENOMEM"
                  /\ blit_log' = << >>
                  /\ out_rga_frame_info' = out_rga_frame_info

C25_StrideFallback == [][C25_FallbackStep]_vars

\* C25 witness: the core resolved at configuration names RGA3 cores only,
\* a frame switched the session to 0x4, and a later frame whose strides
\* RGA3 can read was blitted with core 0x4 as well
C25_Witness ==
    /\ call.op = "frame"
    /\ call.ret = "OK"
    /\ Rga3Only(scheduler_core)
    /\ is_rga2_used
    /\ out_rga_frame_info.scheduler_core = 4
    /\ Len(submitted) = 2
    /\ ~StrideIncompat(desc_log.sd, in_rga_frame_infos[1])
    /\ desc_log.sd.modifier = "LINEAR"
    /\ blit_log # << >>
    /\ BlitsOnCore(blit_log, 4)

\* C26: a call of ff_rkrga_filter_frame with a frame leaves the frame infos
\* of the inputs and every field of the output frame info other than its
\* scheduler core as they were configured, and the capability flags, the
\* resolved core of the context, the depth, the overlay offset validity and
\* the frames context of the canvas as well; the legacy-unit flag changes
\* only from 0 to 1 and the output scheduler core only to 0x4, both only
\* when the core named RGA3 cores only and a source or pattern frame had
\* strides RGA3 cannot read; the compressed-output toggle changes only
\* from 1 to 0.
C26_FrameStep ==
    FrameStep =>
        LET l    == desc_log'
            core == out_rga_frame_info.scheduler_core
            fell == /\ Rga3Only(core)
                    /\ \/ StrideIncompat(l.sd, in_rga_frame_infos[1])
                       \/ /\ l.pd # NoDesc
                          /\ StrideIncompat(l.pd, in_rga_frame_infos[2])
        IN  /\ in_rga_frame_infos' = in_rga_frame_infos
            /\ [out_rga_frame_info' EXCEPT !.scheduler_core = core]
                  = out_rga_frame_info
            /\ << has_rga2', has_rga2l', has_rga2e', has_rga2p', has_rga3' >>
                  = << has_rga2, has_rga2l, has_rga2e, has_rga2p, has_rga3 >>
            /\ scheduler_core' = scheduler_core
            /\ async_depth' = async_depth
            /\ is_overlay_offset_valid' = is_overlay_offset_valid
            /\ pat_preproc_hwfc' = pat_preproc_hwfc
            /\ is_rga2_used' # is_rga2_used =>
                  (~is_rga2_used /\ is_rga2_used' /\ fell)
            /\ out_rga_frame_info'.scheduler_core # core =>
                  /\ out_rga_frame_info'.scheduler_core = 4
                  /\ is_rga2_used'
                  /\ fell
            /\ afbc_out' # afbc_out => (afbc_out /\ ~afbc_out')

C26_FramesChange == [][C26_FrameStep]_vars

\* C26 witness: the first call of a composing session, in which the
\* destination was built compressed for an RGA3 core and the pattern frame
\* that followed, with strides RGA3 cannot read, set the flag and the core
\* 0x4
C26_Witness ==
    /\ call.op = "frame"
    /\ call.ret = "OK"
    /\ nframes = 1
    /\ nb_inputs = 2
    /\ is_rga2_used
    /\ Rga3Only(scheduler_core)
    /\ out_rga_frame_info.scheduler_core = 4
    /\ afbc_out
    /\ Len(blit_log) = 1
    /\ blit_log[1].dst.rd_mode = 2
    /\ StrideIncompat(desc_log.pd, in_rga_frame_infos[2])

\* the formats get_drm_afbc_format has a code for
AfbcEncodable ==
    {"NV12", "NV15", "NV16", "NV20", "NV24", "RGB565LE", "BGR565LE", "RGB24",
     "BGR24", "RGBA", "RGB0", "BGRA", "BGR0"}

\* C27 as claimed: with the compressed-output toggle set, a frame that is
\* produced on the legacy unit (its blit is issued with the flag set or
\* with core 0x4) or whose output format has no compressed encoding has a
\* destination with read mode 0 and a layout descriptor that was not
\* rewritten, and the toggle is cleared by that call; once cleared the
\* toggle stays cleared; and no destination construction fails while the
\* output buffer can be had.
C27_AsClaimedStep ==
    FrameStep =>
        LET legacy == \/ is_rga2_used'
                      \/ out_rga_frame_info'.scheduler_core = 4
                      \/ out_rga_frame_info.pix_fmt \notin AfbcEncodable
        IN  /\ (afbc_out /\ legacy /\ call'.ret = "OK") =>
                  /\ call'.blits = 1
                  /\ blit_log'[Len(blit_log')].dst.rd_mode = 0
                  /\ blit_log'[Len(blit_log')].dst.modifier = "LINEAR"
                  /\ ~afbc_out'
            /\ ~afbc_out => ~afbc_out'
            /\ desc_log'.dst \in {"none", "skip", "alloc"}

C27_AsClaimed == [][C27_AsClaimedStep]_vars

\* ---------------------------------------------- configuration claims, II
\* the envelope of RGA3 for the frame infos of an accepted configuration
InEnvelope ==
    LET src == in_rga_frame_infos[1]
        dst == out_rga_frame_info
        pat == in_rga_frame_infos[nb_inputs]
    IN  /\ 8 * dst.act_w >= src.act_w
        /\ dst.act_w <= 8 * src.act_w
        /\ 8 * dst.act_h >= src.act_h
        /\ dst.act_h <= 8 * src.act_h
        /\ src.act_w >= 68
        /\ src.act_w <= 8176
        /\ src.act_h <= 8176
        /\ dst.act_w >= 68
        /\ nb_inputs > 1 =>
              (pat.act_w >= 68 /\ pat.act_w <= 8176 /\ pat.act_h <= 8176)

\* C28: in a context whose configuration succeeded with RGA3 present, if
\* the legacy unit is not required both scale ratios are within 1/8 .. 8,
\* the source is 68 .. 8176 wide and at most 8176 high, the destination at
\* least 68 wide and a pattern input 68 .. 8176 wide and at most 8176 high;
\* and a request outside of that was not rejected for it: the legacy unit
\* is required and the resolved core names RGA2 cores only.
C28_Rga3Envelope ==
    (phase = "ready" /\ has_rga3) =>
        /\ ~is_rga2_used => InEnvelope
        /\ ~InEnvelope =>
              /\ is_rga2_used
              /\ scheduler_core = (IF has_rga2p THEN 12 ELSE 4)
              /\ out_rga_frame_info.scheduler_core = scheduler_core

\* C28 witness: a composition whose overlay is narrower than 68 pixels,
\* main input and output inside the envelope, accepted on the legacy unit
C28_Witness ==
    /\ phase = "ready"
    /\ has_rga3
    /\ nb_inputs = 2
    /\ in_rga_frame_infos[2].act_w < 68
    /\ in_rga_frame_infos[1].act_w = out_rga_frame_info.act_w
    /\ in_rga_frame_infos[1].act_w >= 68
    /\ ~IsRGB(in_rga_frame_infos[1].pix_fmt)
    /\ in_rga_frame_infos[1].pix_fmt \notin Rga2OnlyIn
    /\ is_rga2_used
    /\ scheduler_core = 4

\* the dynamic limits of the unit the context resolved to, for input info:
\* an output of at most 4096x4096 on a legacy unit that is not RGA2-Pro,
\* an input of at least 68x2 on RGA3
DynLimits(used, info) ==
    /\ (used /\ ~has_rga2p) =>
          (out_rga_frame_info.act_w <= 4096 /\ out_rga_frame_info.act_h <= 4096)
    /\ ~used => (info.act_w >= 68 /\ info.act_h >= 2)

\* C29: after a call of ff_rkrga_init that accepted the configuration, and
\* after a call with a frame that succeeded, the dynamic limits hold for
\* every input of the context: an output of at most 4096x4096 on a non-Pro
\* legacy unit, an input of at least 68x2 on the modern unit
C29_DynamicLimits ==
    (phase = "ready" /\ call.op \in {"init", "frame"} /\ call.ret = "OK") =>
        \A k \in 1..nb_inputs :
           DynLimits(is_rga2_used, in_rga_frame_infos[k])

\* C29 witness: a frame whose source stride the RGA3 cannot read passed the
\* repeated check and was blitted on a non-Pro RGA2
C29_Witness ==
    /\ call.op = "frame"
    /\ call.ret = "OK"
    /\ Rga3Only(scheduler_core)
    /\ is_rga2_used
    /\ ~has_rga2p
    /\ StrideIncompat(desc_log.sd, in_rga_frame_infos[1])
    /\ out_rga_frame_info.scheduler_core = 4
    /\ out_rga_frame_info.act_w <= 4096
    /\ blit_log # << >>

\* the operations for which verify_rga_frame_info selects the RGA3 cores
\* whatever the core option is: more than one input, a scale ratio other
\* than 1, a cropped input, a 10-bit msb-aligned input or output
PrefersRga3 ==
    LET src == in_rga_frame_infos[1]
        dst == out_rga_frame_info
    IN  \/ nb_inputs > 1
        \/ dst.act_w # src.act_w
        \/ dst.act_h # src.act_h
        \/ src.crop
        \/ src.uncompact_10b_msb
        \/ dst.uncompact_10b_msb

\* C30 as the claim states it: with both generations present and the legacy
\* unit not forced, a multi-input, scaled, cropped or 10-bit operation
\* resolves to a core mask with at least one RGA3 bit (0x1, 0x2) and at
\* least one RGA2 bit (0x4, 0x8), and a single-input same-scale transform
\* resolves to RGA3 bits only
C30_AsClaimed ==
    (phase = "ready" /\ has_rga3 /\ has_rga2 /\ ~is_rga2_used) =>
        /\ PrefersRga3 =>
              /\ BitAnd(scheduler_core, 3) # 0
              /\ BitAnd(scheduler_core, 12) # 0
        /\ ~PrefersRga3 =>
              /\ scheduler_core # 0
              /\ scheduler_core = BitAnd(scheduler_core, 3)

\* C30, amended: with RGA3 and RGA2-Enhance both present and the legacy unit
\* not forced, a multi-input, scaled, cropped or 10-bit operation resolves
\* to the core mask 0x3, the two RGA3 cores and no RGA2 core, and so does
\* every operation without a valid core option; a single-input same-scale
\* transform otherwise keeps its core option, which names an RGA2 core
C30_CoreResolution ==
    (phase = "ready" /\ has_rga3 /\ has_rga2e /\ ~is_rga2_used) =>
        /\ out_rga_frame_info.scheduler_core = scheduler_core
        /\ PrefersRga3 => scheduler_core = 3
        /\ (~PrefersRga3 /\ scheduler_core # 3) =>
              /\ scheduler_core = core_opt
              /\ BitAnd(core_opt, 12) # 0

\* C30 witness: a composition configured with a core option naming cores of
\* both generations resolved to the RGA3 cores
C30_Witness ==
    /\ phase = "ready"
    /\ has_rga3
    /\ has_rga2e
    /\ ~is_rga2_used
    /\ nb_inputs = 2
    /\ core_opt = 5
    /\ scheduler_core = 3

\* C31: whenever the configuration required the legacy unit, the resolved
\* scheduler core is 0x4, or 0xC when RGA2-Pro is present, whatever core the
\* user asked for; it holds no RGA3 core bit and is the core of the output
\* frame info
C31_LegacyCore ==
    (phase = "ready" /\ is_rga2_used) =>
        /\ scheduler_core = (IF has_rga2p THEN 12 ELSE 4)
        /\ BitAnd(scheduler_core, 3) = 0
        /\ out_rga_frame_info.scheduler_core = scheduler_core

\* C31 witness: hardware with RGA3 and RGA2-Pro, a core option naming cores
\* of both generations, a request the modern unit cannot take: both RGA2
\* cores replaced the option
C31_Witness ==
    /\ phase = "ready"
    /\ is_rga2_used
    /\ has_rga3
    /\ has_rga2p
    /\ core_opt = 5
    /\ scheduler_core = 12
    /\ out_rga_frame_info.scheduler_core = 12

\* ------------------------------------------------ configuration claims, III
\* the full-range JPEG-tagged planar formats
YuvjFmts == {"YUVJ420P", "YUVJ422P"}

\* C32: a configuration with a YUVJ420P or YUVJ422P output and an input of
\* any other format is never accepted (with a unit detected it ends with
\* ENOSYS), while a YUVJ input with a planar or NV12 output of the same
\* size is accepted wherever an RGA2 was detected and no allocation failed
C32_FullRangeAsymmetry ==
    LET sf == links.inputs[1].sw_format
        df == links.output.sw_format
    IN  /\ (phase = "ready") => (df \in YuvjFmts => sf \in YuvjFmts)
        /\ (call.op = "init" /\ df \in YuvjFmts /\ sf \notin YuvjFmts) =>
              /\ call.ret # "OK"
              /\ call.kind \notin {"nohw", "hwfc"} => call.ret = "ENOSYS"
        /\ (/\ call.op = "init"
            /\ sf \in YuvjFmts
            /\ df \in {"YUV420P", "YUV422P", "NV12"}
            /\ has_rga2
            /\ call.kind \notin {"hwfc", "fifo"}) => call.ret = "OK"

\* C32 witness: a YUVJ422P input with a YUV420P output was accepted
C32_Witness ==
    /\ phase = "ready"
    /\ call.op = "init"
    /\ call.ret = "OK"
    /\ links.inputs[1].sw_format = "YUVJ422P"
    /\ links.output.sw_format = "YUV420P"

\* --------------------------------------------- the crop of the vpp filter
\* Variant of set_size_info with a plausible slip: the expression results
\* are clamped from above only
set_size_info_nomax(inlink, outlink, e) ==
    LET x1 == FFMIN(e.cx, inlink.w)
        y1 == FFMIN(e.cy, inlink.h)
        w1 == FFMIN(e.cw, inlink.w)
        h1 == FFMIN(e.ch, inlink.h)
        x2 == FFMIN(x1, inlink.w - w1)
        y2 == FFMIN(y1, inlink.h - h1)
        w2 == FFMIN(w1, inlink.w - x2)
        h2 == FFMIN(h1, inlink.h - y2)
    IN  IF \/ inlink.w < 2 \/ inlink.w > 8192
           \/ inlink.h < 2 \/ inlink.h > 8192
        THEN [ret |-> "EINVAL", x |-> e.cx, y |-> e.cy, w |-> e.cw, h |-> e.ch]
        ELSE IF \/ outlink.w < 2 \/ outlink.w > 8192
                \/ outlink.h < 2 \/ outlink.h > 8192
        THEN [ret |-> "EINVAL", x |-> x2, y |-> y2, w |-> w2, h |-> h2]
        ELSE [ret |-> "OK", x |-> x2, y |-> y2, w |-> w2, h |-> h2]

\* set_size_info on the input link, the output size the w and h expressions
\* gave and the cx, cy, cw, ch expression results e: [ret, x, y, w, h],
\* the act_* fields of the RGAVppContext after the clamp
set_size_info(inlink, outlink, e) ==
    LET x1 == FFMAX(FFMIN(e.cx, inlink.w), 0)
        y1 == FFMAX(FFMIN(e.cy, inlink.h), 0)
        w1 == FFMAX(FFMIN(e.cw, inlink.w), 0)
        h1 == FFMAX(FFMIN(e.ch, inlink.h), 0)
        x2 == FFMIN(x1, inlink.w - w1)
        y2 == FFMIN(y1, inlink.h - h1)
        w2 == FFMIN(w1, inlink.w - x2)
        h2 == FFMIN(h1, inlink.h - y2)
    IN  IF \/ inlink.w < 2 \/ inlink.w > 8192
           \/ inlink.h < 2 \/ inlink.h > 8192
        THEN [ret |-> "EINVAL", x |-> e.cx, y |-> e.cy, w |-> e.cw, h |-> e.ch]
        ELSE IF \/ outlink.w < 2 \/ outlink.w > 8192
                \/ outlink.h < 2 \/ outlink.h > 8192
        THEN [ret |-> "EINVAL", x |-> x2, y |-> y2, w |-> w2, h |-> h2]
        ELSE [ret |-> "OK", x |-> x2, y |-> y2, w |-> w2, h |-> h2]

\* eval_expr, r->crop: the crop is on when the cw or ch expression gave
\* something else than the size of the input link
eval_crop(inlink, e) == e.cw # inlink.w \/ e.ch # inlink.h

\* rgavpp_config_props, the RKRGAParam built from the RGAVppContext
vpp_param(inlink, e, sz) ==
    [NoParam EXCEPT !.in_crop = eval_crop(inlink, e),
                    !.in_crop_x = sz.x, !.in_crop_y = sz.y,
                    !.in_crop_w = sz.w, !.in_crop_h = sz.h]

\* rgavpp_config_props: set_size_info, then ff_rkrga_init with the clamped
\* rectangle; an error of set_size_info is returned before the context is
\* touched
VppConfigProps ==
    \E sz \in {set_size_info(links.inputs[1], links.output, crop_expr)} :
       IF sz.ret = "OK"
       THEN RkrgaInitWith(vpp_param(links.inputs[1], crop_expr, sz), "none")
       ELSE /\ phase \in {"new", "closed"}
            /\ inits < MaxInits
            /\ inits' = inits + 1
            /\ call' = [NoCall EXCEPT !.op = "init", !.ret = sz.ret,
                                      !.kind = "size"]
            /\ UNCHANGED << phase, host, nb_inputs, async_depth,
                            is_overlay_offset_valid, pat_translate, eof,
                            got_frame, fifo_alloc, fifo_cap, async_fifo,
                            src_frame_list, dst_frame_list, pat_frame_list,
                            pat_preproc_frame_list, signalled, nframes,
                            submitted, delivered, wait_log, sync_failed,
                            hw_reordered, faults, closes, out_status_eof,
                            overlay_ended, rga_ver, core_opt, links, param,
                            has_rga2, has_rga2l, has_rga2e, has_rga2p,
                            has_rga3, scheduler_core, is_rga2_used,
                            in_rga_frame_infos, out_rga_frame_info,
                            pat_preproc_hwfc, blit_log, afbc_out, desc_log,
                            crop_expr, dec >>

\* input links of the vpp filter: the smallest and the largest size, odd
\* sizes, and one below the minimum; the output has the size of the input
\* or a fixed one
CropLinks ==
    { [inputs |-> << Link(f, s[1], s[2]) >>, output |-> Link(f, o[1], o[2])] :
        f \in {"NV12", "RGBA"},
        s \in { << 2, 2 >>, << 1089, 65 >>, << 8192, 64 >>, << 1, 64 >> },
        o \in { << 1088, 64 >>, << 136, 8 >> } }

\* results of the crop expressions for an input link w x h: negative, zero,
\* odd, inside, equal to the link size and far above it
CropExprs(w, h) ==
    [cx : {-5, 0, 3, w - 1, w + 9}, cy : {-1, 1, h + 1},
     cw : {-1, 0, 3, w, 9000}, ch : {-7, 33, h, 20000}]

InitCrop ==
    /\ PipelineInit
    /\ IdleCfg
    /\ afbc_out = FALSE
    /\ desc_log = NoDescLog
    /\ async_depth = 1
    /\ nb_inputs = 1
    /\ rga_ver = {RGA_3, RGA_2_Enhance}
    /\ core_opt = 0
    /\ scheduler_core = 0
    /\ param = NoParam
    /\ links \in CropLinks
    /\ crop_expr \in CropExprs(links.inputs[1].w, links.inputs[1].h)
    /\ dec = NoDec

NextCrop ==
    \/ VppConfigProps
    \/ Uninit

SpecCrop == InitCrop /\ [][NextCrop]_vars

\* C33: whatever the crop expressions gave, the active rectangle of the
\* input stored by a configuration of a link of 2..8192 pixels a side has
\* non-negative x, y, w, h and ends inside the link, with the alignment of
\* YUV formats applied; with the crop on it is the clamped rectangle
C33_CropInBounds ==
    (call.op = "init" /\ call.kind # "size" /\ in_rga_frame_infos # << >>) =>
        LET in == in_rga_frame_infos[1]
            lk == links.inputs[1]
        IN  /\ lk.w \in 2..8192 /\ lk.h \in 2..8192
            /\ 0 <= in.act_x
            /\ 0 <= in.act_y
            /\ 0 <= in.act_w
            /\ 0 <= in.act_h
            /\ in.act_x + in.act_w <= lk.w
            /\ in.act_y + in.act_h <= lk.h
            /\ in.crop = eval_crop(lk, crop_expr)
            /\ in.crop => /\ in.act_x = param.in_crop_x
                             - (IF IsRGB(lk.sw_format) THEN 0
                                ELSE param.in_crop_x % 2)
                          /\ in.act_w <= FFMAX(crop_expr.cw, 0)
            /\ ~IsRGB(lk.sw_format) =>
                  /\ in.act_x % 2 = 0 /\ in.act_y % 2 = 0
                  /\ in.act_w % 2 = 0 /\ in.act_h % 2 = 0

\* C33 witness: a negative x and an oversized width and height on an odd
\* YUV link were stored as the aligned whole picture
C33_Witness ==
    /\ call.op = "init"
    /\ call.kind # "size"
    /\ in_rga_frame_infos # << >>
    /\ links.inputs[1] = Link("NV12", 1089, 65)
    /\ crop_expr.cx < 0
    /\ crop_expr.cw > 8192
    /\ crop_expr.ch > 8192
    /\ in_rga_frame_infos[1].crop
    /\ in_rga_frame_infos[1].act_x = 0
    /\ in_rga_frame_infos[1].act_w = 1088
    /\ in_rga_frame_infos[1].act_h = 64

\* ------------------------------------------------------ pipeline claims, II
\* C34 as the claim states it: whatever calls failed, none of the source,
\* destination and pattern pools holds more than async_depth + 1 wrappers
C34_AsClaimed ==
    /\ Len(src_frame_list) <= async_depth + 1
    /\ Len(dst_frame_list) <= async_depth + 1
    /\ Len(pat_frame_list) <= async_depth + 1

\* C35 as the claim states it: between calls, a wrapper of the source,
\* destination or pattern pool is locked exactly when an operation in the
\* FIFO refers to it
C35_AsClaimed ==
    /\ \A k \in DOMAIN src_frame_list :
          (src_frame_list[k].locked = 1)
             <=> (\E a \in Range(async_fifo) : a.src = k)
    /\ \A k \in DOMAIN dst_frame_list :
          (dst_frame_list[k].locked = 1)
             <=> (\E a \in Range(async_fifo) : a.dst = k)
    /\ \A k \in DOMAIN pat_frame_list :
          (pat_frame_list[k].locked = 1)
             <=> (\E a \in Range(async_fifo) : a.pat = k)

\* C36 as the claim states it: whenever blits were issued with the legacy
\* unit selected (the flag set, or the core of a blit naming RGA2 cores
\* only), neither the input nor the output format is P010 or P210
C36_AsClaimed ==
    (blit_log # << >>
     /\ (is_rga2_used \/ \E i \in DOMAIN blit_log :
                            /\ blit_log[i].dst.core # 0
                            /\ BitAnd(blit_log[i].dst.core, 3) = 0)) =>
        /\ in_rga_frame_infos[1].pix_fmt \notin {"P010", "P210"}
        /\ out_rga_frame_info.pix_fmt \notin {"P010", "P210"}

\* the call of this step set the legacy-unit flag
FallbackTriggered == FrameStep /\ ~is_rga2_used /\ is_rga2_used'

\* C37 as the claim states it: on a context without a usable RGA2, the frame
\* that triggers the stride fallback fails in the construction of the source
\* wrapper without a blit, and so does every later frame, whatever its
\* strides are
C37_AsClaimedStep ==
    (FrameStep /\ ~has_rga2) =>
        /\ FallbackTriggered =>
              /\ desc_log'.src \notin {"none", "skip"}
              /\ call'.ret = "ENOMEM"
              /\ blit_log' = << >>
        /\ is_rga2_used =>
              /\ desc_log'.src \notin {"none", "skip"}
              /\ call'.ret = "ENOMEM"
              /\ blit_log' = << >>

C37_AsClaimed == [][C37_AsClaimedStep]_vars

\* a wrapper construction ended in a failure
Failed(kind) == kind \notin {"none", "skip"}

\* C37 (amended): on a context whose RGA2 was masked out by a core option
\* naming RGA3 cores only, the frame that triggers the stride fallback
\* fails without a blit in the construction of the wrapper of the frame
\* whose strides RGA3 cannot read, the source or the overlay; every later
\* frame fails without a blit in the construction of the source wrapper,
\* whatever its strides are, and nothing is enqueued.  On hardware with RGA3
\* alone the output scheduler core is 0 and the fallback is never triggered.
C37_PoisonedStep ==
    (FrameStep /\ ~has_rga2) =>
        LET l == desc_log'
        IN  /\ FallbackTriggered =>
                  /\ Rga3Only(out_rga_frame_info.scheduler_core)
                  /\ call'.ret = "ENOMEM"
                  /\ call'.blits = 0 /\ call'.pre_blits = 0
                  /\ blit_log' = << >>
                  /\ async_fifo' = async_fifo
                  /\ out_rga_frame_info' = out_rga_frame_info
                  /\ \/ /\ Failed(l.src)
                        /\ StrideIncompat(l.sd, in_rga_frame_infos[1])
                     \/ /\ l.src = "none" /\ l.dst = "none"
                        /\ Failed(l.prein) \/ Failed(l.pat)
                        /\ StrideIncompat(l.pd, in_rga_frame_infos[2])
            /\ is_rga2_used =>
                  /\ Failed(l.src)
                  /\ call'.ret = "ENOMEM"
                  /\ call'.blits = 0 /\ call'.pre_blits = 0
                  /\ blit_log' = << >>
                  /\ async_fifo' = async_fifo
                  /\ is_rga2_used'
            /\ rga_ver = {RGA_3} =>
                  /\ out_rga_frame_info.scheduler_core = 0
                  /\ ~is_rga2_used'

C37_PoisonedSession == [][C37_PoisonedStep]_vars

\* C37 witness: RGA2 masked out, the flag set by an earlier frame, and a
\* second frame whose strides RGA3 can read failed in the source wrapper
C37_Witness ==
    /\ call.op = "frame"
    /\ nframes = 2
    /\ ~has_rga2
    /\ is_rga2_used
    /\ Rga3Only(out_rga_frame_info.scheduler_core)
    /\ call.ret = "ENOMEM"
    /\ Failed(desc_log.src)
    /\ desc_log.sd.drm
    /\ desc_log.sd.fd >= 0
    /\ desc_log.sd.modifier = "LINEAR"
    /\ ~StrideIncompat(desc_log.sd, in_rga_frame_infos[1])
    /\ get_pixel_stride(desc_log.sd, in_rga_frame_infos[1].pix_fmt).ret = "OK"
    /\ blit_log = << >>

\* ---------------------------------------------------- composition claims
\* C38: in a two-input filter, a frame call made with an invalid overlay
\* offset or without an overlay frame is a single-input operation: no
\* pattern or canvas wrapper is picked, no pre-composite blit is issued, the
\* one blit has no pattern and a source blend mode of 0, and the operation
\* of the primary frame is enqueued, so that it is in the FIFO or delivered
C38_SingleInputStep ==
    (/\ FrameStep
     /\ nb_inputs = 2
     /\ \/ param.overlay_x >= in_rga_frame_infos[1].act_w - 2
        \/ param.overlay_y >= in_rga_frame_infos[1].act_h - 2
        \/ overlay_ended') =>
        /\ call'.ret = "OK"
        /\ call'.pat = 0
        /\ call'.pre = 0
        /\ call'.pre_blits = 0
        /\ call'.blits = 1
        /\ Len(pat_frame_list') = Len(pat_frame_list)
        /\ Len(pat_preproc_frame_list') = Len(pat_preproc_frame_list)
        /\ Len(blit_log') = 1
        /\ ~blit_log'[1].has_pat
        /\ blit_log'[1].pat = NoInfo
        /\ blit_log'[1].src.blend = 0
        /\ Len(submitted') = Len(submitted) + 1
        /\ Len(async_fifo') + Len(delivered')
              = Len(async_fifo) + Len(delivered) + 1

C38_SingleInput == [][C38_SingleInputStep]_vars

\* C38 witness: an overlay frame was supplied with an offset at the active
\* width minus 2, and the primary frame was blitted alone
C38_Witness ==
    /\ call.op = "frame"
    /\ call.ret = "OK"
    /\ nb_inputs = 2
    /\ param.overlay_x = in_rga_frame_infos[1].act_w - 2
    /\ ~overlay_ended
    /\ call.pat = 0
    /\ Len(blit_log) = 1
    /\ blit_log[1].src.blend = 0

\* C39: in a two-input context whose overlay offset is valid, the
\* pre-composite destination rectangle (negative offsets counting as 0, the
\* overlay's size cut at the primary's right and bottom) has a positive
\* width and height and lies inside the active extent of the primary input,
\* and every pre-composite blit issued writes that rectangle of the canvas
\* from a source rectangle of the same width and height at the overlay's
\* origin
C39_PreCompositeRect ==
    (phase = "ready" /\ nb_inputs = 2 /\ is_overlay_offset_valid) =>
        LET in0  == in_rga_frame_infos[1]
            in1  == in_rga_frame_infos[2]
            x    == FFMAX(param.overlay_x, 0)
            y    == FFMAX(param.overlay_y, 0)
            rect == rga_set_rect(x, y, FFMIN(in0.act_w - x, in1.act_w),
                                       FFMIN(in0.act_h - y, in1.act_h))
        IN  /\ rect.xoffset >= 0
            /\ rect.yoffset >= 0
            /\ rect.width > 0
            /\ rect.height > 0
            /\ rect.xoffset + rect.width <= in0.act_w
            /\ rect.yoffset + rect.height <= in0.act_h
            /\ \A i \in DOMAIN blit_log :
                  blit_log[i].dst.sync_mode = "SYNC" =>
                     /\ blit_log[i].dst.rect = rect
                     /\ blit_log[i].src.rect =
                           rga_set_rect(0, 0, rect.width, rect.height)

\* C39 witness: a pre-composite blit was issued for an overlay wider than
\* what is left of the primary input right of its offset, and so was cut
C39_Witness ==
    /\ phase = "ready"
    /\ nb_inputs = 2
    /\ is_overlay_offset_valid
    /\ param.overlay_x > 0
    /\ \E i \in DOMAIN blit_log :
          /\ blit_log[i].dst.sync_mode = "SYNC"
          /\ blit_log[i].dst.rect.xoffset = param.overlay_x
          /\ blit_log[i].dst.rect.width < in_rga_frame_infos[2].act_w
          /\ blit_log[i].dst.rect.xoffset + blit_log[i].dst.rect.width
                = in_rga_frame_infos[1].act_w

\* ================================================== the rkmpp decoder
\* What the decode loop reads of a decoder: dec. The MPP library and the
\* host are outside: every answer they can give is an input of the call.

MAX_ERRINFO_COUNT == 100

\* the 'errinfo' frames in a row that are explored
MaxErrInfo == 2

\* the iterations of the loop of rkmpp_decode_receive_frame that are
\* explored in one call
MaxLoop == 3

\* the variables of the filter context, which the decoder leaves alone
rgavars == << phase, host, nb_inputs, async_depth, is_overlay_offset_valid,
              pat_translate, eof, got_frame, fifo_alloc, fifo_cap, async_fifo,
              src_frame_list, dst_frame_list, pat_frame_list,
              pat_preproc_frame_list, signalled, nframes, submitted,
              delivered, wait_log, sync_failed, hw_reordered, faults, closes,
              out_status_eof, overlay_ended, call, rga_ver, core_opt, links,
              param, has_rga2, has_rga2l, has_rga2e, has_rga2p, has_rga3,
              scheduler_core, is_rga2_used, in_rga_frame_infos,
              out_rga_frame_info, pat_preproc_hwfc, inits, blit_log,
              afbc_out, desc_log, crop_expr >>

\* rkmpp_set_buffer_group: [ret, buf_group]; early is a failure up to
\* av_hwframe_ctx_init, late one of mpp_buffer_commit or of the control call
rkmpp_set_buffer_group(d, fault) ==
    IF fault = "none" THEN [ret |-> "OK", buf_group |-> TRUE]
    ELSE IF d.buf_mode = "HALF_INTERNAL"
    THEN [ret |-> "ERR", buf_group |-> FALSE]
    ELSE [ret |-> "ERR",
          buf_group |-> IF fault = "late" THEN TRUE ELSE d.buf_group]

\* rkmpp_get_frame: [d, ret], a being what the MPP calls give
rkmpp_get_frame(d, a) ==
    IF d.eof THEN [d |-> d, ret |-> "EOF"]
    ELSE IF a \in {"ctl_fail", "get_fail"} THEN [d |-> d, ret |-> "EXTERNAL"]
    ELSE IF a = "null" THEN [d |-> d, ret |-> "EAGAIN"]
    ELSE IF a = "eos_nobuf"
    THEN [d |-> [d EXCEPT !.eof = TRUE], ret |-> "EOF"]
    ELSE IF a = "discard" THEN [d |-> d, ret |-> "EAGAIN"]
    ELSE IF a = "errinfo"
    THEN [d |-> [d EXCEPT !.errinfo_cnt = @ + 1],
          ret |-> IF d.errinfo_cnt > MAX_ERRINFO_COUNT THEN "EXTERNAL"
                  ELSE "EAGAIN"]
    ELSE IF a = "info_fmt_fail"
    THEN [d |-> [d EXCEPT !.info_change = TRUE], ret |-> "ERR"]
    ELSE IF a \in {"info_grp_early", "info_grp_late"}
    THEN LET g == rkmpp_set_buffer_group(d, IF a = "info_grp_early"
                                            THEN "early" ELSE "late")
         IN  [d |-> [d EXCEPT !.info_change = TRUE,
                              !.buf_group = g.buf_group],
              ret |-> g.ret]
    ELSE IF a \in {"info", "info_ctl_fail"}
    THEN [d |-> [d EXCEPT !.info_change = TRUE,
                          !.buf_group =
                              rkmpp_set_buffer_group(d, "none").buf_group],
          ret |-> IF a = "info" THEN "OK" ELSE "EXTERNAL"]
    ELSE [d |-> [d EXCEPT !.info_change = FALSE, !.errinfo_cnt = 0,
                          !.got_frame = TRUE],
          ret |-> IF a = "frame" THEN "OK" ELSE "ERR"]

\* rkmpp_send_eos: [d, ret]; the put is repeated until the queue takes the
\* packet
rkmpp_send_eos(d, init_ok) ==
    IF ~init_ok THEN [d |-> d, ret |-> "EXTERNAL"]
    ELSE [d |-> [d EXCEPT !.draining = TRUE, !.mpp_eos = TRUE], ret |-> "OK"]

\* rkmpp_send_packet for the packet in last_pkt: [d, ret]; q says whether
\* mpp_packet_init succeeds ("full": it does and the queue refuses the
\* packet)
rkmpp_send_packet(d, q) ==
    IF d.draining THEN [d |-> d, ret |-> "EOF"]
    ELSE IF d.got_frame /\ d.skip_nonkey /\ d.last_pkt = "nonkey"
    THEN [d |-> d, ret |-> "OK"]
    ELSE IF q = "init_fail" THEN [d |-> d, ret |-> "EXTERNAL"]
    ELSE IF q = "full" THEN [d |-> d, ret |-> "EAGAIN"]
    ELSE [d |-> [d EXCEPT !.puts = @ + 1,
                          !.late_puts = IF d.mpp_eos THEN @ + 1 ELSE @],
          ret |-> "OK"]

\* The results of rkmpp_get_frame over what decode_get_frame and the calls
\* around it can give: a failing control or get call, no frame, an 'EOS'
\* frame without a buffer, a 'discard' or 'errinfo' frame, an info change
\* (complete, or with the format negotiation, the buffer group before or
\* after its allocation, or a control call failing), a frame, and a frame
\* whose export fails. An 'EOS' frame with a buffer is handled as the frame
\* it carries.
GetFrames(d) ==
    { rkmpp_get_frame(d, a) :
        a \in {"ctl_fail", "get_fail", "null", "eos_nobuf", "discard",
               "info", "info_fmt_fail", "info_grp_early", "info_grp_late",
               "info_ctl_fail", "frame", "frame_fail"}
              \cup IF d.errinfo_cnt < MaxErrInfo THEN {"errinfo"} ELSE {} }

\* the loop of rkmpp_decode_receive_frame: the set of [d, ret] it can leave
\* with within n iterations; ff_decode_get_packet gives a packet with or
\* without the key flag, EAGAIN, EOF or another error
RECURSIVE receive_loop(_, _)
receive_loop(d, n) ==
    IF n = 0 THEN {}
    ELSE IF d.last_pkt = "none"
    THEN UNION { CASE p = "EOF" ->
                        UNION { GetFrames(rkmpp_send_eos(d, ok).d) :
                                  ok \in BOOLEAN }
                   [] p = "EAGAIN" -> GetFrames(d)
                   [] p = "ERR" -> { [d |-> d, ret |-> "ERR"] }
                   [] OTHER -> receive_loop([d EXCEPT !.last_pkt = p], n - 1)
                 : p \in {"key", "nonkey", "EAGAIN", "EOF", "ERR"} }
    ELSE UNION { LET s == rkmpp_send_packet(d, q)
                 IN  CASE s.ret = "EAGAIN" ->
                            UNION { IF g.ret # "EAGAIN" THEN {g}
                                    ELSE receive_loop(g.d, n - 1) :
                                      g \in GetFrames(s.d) }
                       [] s.ret = "OK" ->
                            receive_loop([s.d EXCEPT !.last_pkt = "none"],
                                         n - 1)
                       [] OTHER -> {s}
                 : q \in {"ok", "full", "init_fail"} }

\* rkmpp_decode_receive_frame: the set of [d, ret] of one call
rkmpp_decode_receive_frame(d) ==
    LET d0  == [d EXCEPT !.puts = 0]
        out == IF d0.info_change /\ ~d0.buf_group
               THEN { [d |-> d0, ret |-> "EOF", early |-> TRUE] }
               ELSE IF d0.eof
               THEN { [d |-> d0, ret |-> "EOF", early |-> TRUE] }
               ELSE IF d0.draining
               THEN { [d |-> g.d, ret |-> g.ret, early |-> FALSE] :
                        g \in GetFrames(d0) }
               ELSE { [d |-> g.d, ret |-> g.ret, early |-> FALSE] :
                        g \in receive_loop(d0, MaxLoop) }
    IN  { [d   |-> o.d,
           ret |-> IF ~o.early /\ o.d.draining /\ o.ret = "EAGAIN"
                   THEN "EOF" ELSE o.ret] : o \in out }

\* Variant of rkmpp_decode_flush with a plausible slip: the flags are
\* cleared whatever the reset returned
rkmpp_decode_flush_always(d, reset_ok) ==
    [d EXCEPT !.eof = FALSE, !.draining = FALSE, !.info_change = FALSE,
              !.errinfo_cnt = 0, !.got_frame = FALSE, !.last_pkt = "none",
              !.mpp_eos = IF reset_ok THEN FALSE ELSE @]

\* rkmpp_decode_flush: the context after it; a reset that succeeded emptied
\* the MPP queue
rkmpp_decode_flush(d, reset_ok) ==
    IF reset_ok
    THEN [d EXCEPT !.eof = FALSE, !.draining = FALSE, !.info_change = FALSE,
                   !.errinfo_cnt = 0, !.got_frame = FALSE,
                   !.last_pkt = "none", !.mpp_eos = FALSE]
    ELSE d

\* a call of the decoder's receive_frame callback
DecReceiveFrame ==
    /\ dec.opened
    /\ \E o \in rkmpp_decode_receive_frame(dec) :
          dec' = [o.d EXCEPT !.op = "receive_frame", !.ret = o.ret]
    /\ UNCHANGED rgavars

\* a call of the decoder's flush callback
DecFlush ==
    /\ dec.opened
    /\ \E reset_ok \in BOOLEAN :
          dec' = [rkmpp_decode_flush(dec, reset_ok) EXCEPT
                     !.op = IF reset_ok THEN "flush" ELSE "flush_failed",
                     !.ret = "none", !.puts = 0]
    /\ UNCHANGED rgavars

\* rkmpp_decode_close: the flags are cleared, the MPP context is destroyed,
\* the group of the pure external mode is put
DecClose ==
    /\ dec.opened
    /\ dec' = [dec EXCEPT !.opened = FALSE, !.eof = FALSE,
                          !.draining = FALSE, !.info_change = FALSE,
                          !.errinfo_cnt = 0, !.got_frame = FALSE,
                          !.mpp_eos = FALSE,
                          !.buf_group = IF dec.buf_mode = "PURE_EXTERNAL"
                                        THEN FALSE ELSE @,
                          !.op = "close", !.ret = "OK", !.puts = 0]
    /\ UNCHANGED rgavars

\* an opened decoder, with either buffer mode and skip_frame option, next
\* to a filter context in which nothing was configured
InitDec ==
    /\ PipelineInit
    /\ IdleCfg
    /\ afbc_out = FALSE
    /\ desc_log = NoDescLog
    /\ async_depth = 1
    /\ nb_inputs = 1
    /\ rga_ver = {RGA_3}
    /\ core_opt = 0
    /\ scheduler_core = 0
    /\ param = NoParam
    /\ links = [inputs |-> << Link("NV12", 1088, 64) >>,
                output |-> Link("NV12", 1088, 64)]
    /\ crop_expr = NoCropExpr
    /\ \E bm \in {"HALF_INTERNAL", "PURE_EXTERNAL"}, sk \in BOOLEAN :
          dec = [NoDec EXCEPT !.opened = TRUE, !.buf_mode = bm,
                              !.skip_nonkey = sk]

NextDec ==
    \/ DecReceiveFrame
    \/ DecFlush
    \/ DecClose

SpecDec == InitDec /\ [][NextDec]_vars

\* C40: while the decoder is open, (1) a receive_frame call made after the
\* 'EOS' packet was sent puts no data packet, and no data packet is ever put
\* behind the 'EOS' packet; (2) a receive_frame call that leaves with
\* draining set does not return EAGAIN; (3) a receive_frame call made with
\* eof set returns EOF; (4) draining and eof stay set over every call but a
\* flush whose reset succeeded, and a flush whose reset failed changes
\* neither
C40_DrainingStep ==
    dec'.opened =>
        /\ dec'.late_puts = 0
        /\ (dec'.op = "receive_frame" /\ dec.draining) => dec'.puts = 0
        /\ (dec'.op = "receive_frame" /\ dec'.draining) =>
              dec'.ret # "EAGAIN"
        /\ (dec'.op = "receive_frame" /\ dec.eof) => dec'.ret = "EOF"
        /\ (dec'.op # "flush" /\ dec.draining) => dec'.draining
        /\ (dec'.op # "flush" /\ dec.eof) => dec'.eof
        /\ dec'.op = "flush_failed" =>
              /\ dec'.eof = dec.eof
              /\ dec'.draining = dec.draining
        /\ dec'.op = "flush" => (~dec'.eof /\ ~dec'.draining)

C40_Draining == [][C40_DrainingStep]_vars

\* C40 witness: with the 'EOS' packet sent and the 'EOS' frame seen, a
\* flush whose reset failed left the decoder draining and at eof
C40_Witness ==
    /\ dec.opened
    /\ dec.op = "flush_failed"
    /\ dec.draining
    /\ dec.eof
    /\ dec.mpp_eos
    /\ dec.got_frame

====
